---- MODULE Spec2Model ----
(***************************************************************************)
(* Model of the colour-contrast engine of the accessibility remediator     *)
(* (src/accessibility_remediator/app/contrast_checker.py).                 *)
(*                                                                         *)
(* Representation of Python values                                         *)
(*   str        [type |-> "str", chars |-> <<"a", "b", ...>>]              *)
(*   None       [type |-> "NoneType"]                                      *)
(*   float      font sizes: [type |-> "float", tenths |-> n], n = 10 * pt  *)
(*   Color      [r |-> c, g |-> c, b |-> c], a channel c standing for the  *)
(*              float c / ChannelScale (0..ChannelScale is [0,1])          *)
(*   ratios     integers in hundredths (450 stands for 4.5), which is the  *)
(*              precision round(ratio, 2) keeps                            *)
(*   exceptions an operator that can raise returns [raised |-> name]       *)
(*                                                                         *)
(* Arithmetic is fixed point and exact at these scales: the binary         *)
(* rounding error of IEEE doubles (for instance int(x * 255) falling one   *)
(* below the exact product) is not represented.                            *)
(*                                                                         *)
(* Specifications                                                          *)
(*   Spec        one check_contrast call, then suggest_color_fixes and     *)
(*               get_accessibility_issues on its result                    *)
(*   SpecBatch   check_multiple_contrasts on a list of records             *)
(*   SpecHex     a hex colour parsed and serialised again                  *)
(*   SpecThreads calls of several threads on one checker, interleaved      *)
(***************************************************************************)
EXTENDS Integers, Sequences, FiniteSets, TLC

----------------------------------------------------------------------------
(* Python values *)

None == [type |-> "NoneType"]

Str(chars) == [type |-> "str", chars |-> chars]

Float(tenths) == [type |-> "float", tenths |-> tenths]

Raise(name) == [raised |-> name]

IsRaise(v) == "raised" \in DOMAIN v

RoundDiv(a, b) == (a + (b \div 2)) \div b

Min(a, b) == IF a <= b THEN a ELSE b

Max(a, b) == IF a >= b THEN a ELSE b

----------------------------------------------------------------------------
(* Fixed-point scales *)

\* a channel value v in [0,1] is the integer v * ChannelScale; 2550 keeps
\* k/255 and the four steps of both brightness ladders exact
ChannelScale == 2550

\* scale of a gamma-corrected channel
GammaScale == 200000

\* scale of a relative luminance
LumScale == 10000000

----------------------------------------------------------------------------
(* str methods used by the checker *)

Whitespace == {" ", "\t", "\n", "\r"}

Digits == <<"0", "1", "2", "3", "4", "5", "6", "7", "8", "9">>

HexDigits == <<"0", "1", "2", "3", "4", "5", "6", "7", "8", "9",
               "a", "b", "c", "d", "e", "f">>

UpperHexDigits == <<"0", "1", "2", "3", "4", "5", "6", "7", "8", "9",
                    "A", "B", "C", "D", "E", "F">>

IsDigit(ch) == \E i \in 1..10 : Digits[i] = ch

IsHexDigit(ch) == \E i \in 1..16 : HexDigits[i] = ch \/ UpperHexDigits[i] = ch

DigitVal(ch) == (CHOOSE i \in 1..10 : Digits[i] = ch) - 1

HexVal(ch) == (CHOOSE i \in 1..16 : HexDigits[i] = ch \/ UpperHexDigits[i] = ch) - 1

RECURSIVE lstrip(_)
lstrip(s) == IF s # <<>> /\ Head(s) \in Whitespace THEN lstrip(Tail(s)) ELSE s

RECURSIVE rstrip(_)
rstrip(s) ==
    IF s # <<>> /\ s[Len(s)] \in Whitespace
    THEN rstrip(SubSeq(s, 1, Len(s) - 1))
    ELSE s

strip(s) == rstrip(lstrip(s))

startswith(s, prefix) ==
    /\ Len(s) >= Len(prefix)
    /\ SubSeq(s, 1, Len(prefix)) = prefix

\* int(s) for a non-empty run of decimal digits
RECURSIVE int(_)
int(s) ==
    IF Len(s) = 1
    THEN DigitVal(s[1])
    ELSE 10 * int(SubSeq(s, 1, Len(s) - 1)) + DigitVal(s[Len(s)])

\* int(s, base=16) for two hex digits; anything else raises ValueError
int16(s) ==
    IF Len(s) = 2 /\ IsHexDigit(s[1]) /\ IsHexDigit(s[2])
    THEN 16 * HexVal(s[1]) + HexVal(s[2])
    ELSE -1

\* f"{n:02x}"
format_02x(n) ==
    IF n < 16
    THEN <<"0", HexDigits[n + 1]>>
    ELSE IF n < 256
         THEN <<HexDigits[(n \div 16) + 1], HexDigits[(n % 16) + 1]>>
         ELSE <<HexDigits[(n \div 256) + 1], HexDigits[((n \div 16) % 16) + 1],
                HexDigits[(n % 16) + 1]>>

\* f"{n:02X}" for a byte
format_02X(n) == <<UpperHexDigits[(n \div 16) + 1], UpperHexDigits[(n % 16) + 1]>>

----------------------------------------------------------------------------
(* colorzero.Color, as far as the checker uses it *)

MkColor(r, g, b) == [r |-> r, g |-> g, b |-> b]

\* Color.from_rgb_bytes: each byte divided by 255
from_rgb_bytes(r, g, b) == MkColor(10 * r, 10 * g, 10 * b)

\* the named-colour table of the library (the names the model uses)
NAMED_COLORS ==
    [name \in {<<"b", "l", "a", "c", "k">>, <<"w", "h", "i", "t", "e">>,
               <<"r", "e", "d">>, <<"g", "r", "a", "y">>} |->
        CASE name = <<"b", "l", "a", "c", "k">> -> <<"#", "0", "0", "0", "0", "0", "0">>
          [] name = <<"w", "h", "i", "t", "e">> -> <<"#", "f", "f", "f", "f", "f", "f">>
          [] name = <<"r", "e", "d">> -> <<"#", "f", "f", "0", "0", "0", "0">>
          [] name = <<"g", "r", "a", "y">> -> <<"#", "8", "0", "8", "0", "8", "0">>]

\* "#rrggbb" or "#rgb" to a colour; ValueError otherwise
html_to_color(html) ==
    IF Len(html) = 7
       /\ int16(SubSeq(html, 2, 3)) >= 0
       /\ int16(SubSeq(html, 4, 5)) >= 0
       /\ int16(SubSeq(html, 6, 7)) >= 0
    THEN from_rgb_bytes(int16(SubSeq(html, 2, 3)),
                        int16(SubSeq(html, 4, 5)),
                        int16(SubSeq(html, 6, 7)))
    ELSE IF Len(html) = 4
            /\ IsHexDigit(html[2]) /\ IsHexDigit(html[3]) /\ IsHexDigit(html[4])
         THEN from_rgb_bytes(17 * HexVal(html[2]),
                             17 * HexVal(html[3]),
                             17 * HexVal(html[4]))
         ELSE Raise("ValueError")

\* Color(s) for a string s: HTML form when it starts with '#', a colour
\* name otherwise; ValueError when it is neither
ColorFromString(s) ==
    IF startswith(s, <<"#">>)
    THEN html_to_color(s)
    ELSE IF s \in DOMAIN NAMED_COLORS
         THEN html_to_color(NAMED_COLORS[s])
         ELSE Raise("ValueError")

\* Color(r, g, b) for three floats r/255, g/255, b/255 (r, g, b integers):
\* three values within [0,1] are taken as they are, otherwise all three
\* are taken as bytes and divided by 255 once more
ColorFromBytesRatio(r, g, b) ==
    IF r <= 255 /\ g <= 255 /\ b <= 255
    THEN MkColor(10 * r, 10 * g, 10 * b)
    ELSE MkColor(RoundDiv(10 * r, 255), RoundDiv(10 * g, 255), RoundDiv(10 * b, 255))

----------------------------------------------------------------------------
(* class constants *)

\* WCAG contrast ratio thresholds, in hundredths
AA_NORMAL_RATIO == 450

AA_LARGE_RATIO == 300

AAA_NORMAL_RATIO == 700

AAA_LARGE_RATIO == 450

\* large text thresholds, in tenths of a point
LARGE_TEXT_SIZE == 180

LARGE_TEXT_BOLD_SIZE == 140

----------------------------------------------------------------------------
(* re.search(r'rgb\((\d+),\s*(\d+),\s*(\d+)\)', color_str) *)

\* the first position >= i of s that holds no element of set
RECURSIVE SkipWhile(_, _, _)
SkipWhile(s, i, set) ==
    IF i <= Len(s) /\ s[i] \in set THEN SkipWhile(s, i + 1, set) ELSE i

DigitSet == {Digits[i] : i \in 1..10}

Lit(ch) == [kind |-> "literal", ch |-> ch]

\* the pattern, token by token: a literal character, (\d+) or \s*
RgbPattern ==
    <<Lit("r"), Lit("g"), Lit("b"), Lit("("),
      [kind |-> "digits"], Lit(","), [kind |-> "spaces"],
      [kind |-> "digits"], Lit(","), [kind |-> "spaces"],
      [kind |-> "digits"], Lit(")")>>

NoMatch == [matched |-> FALSE]

\* the match of the tokens from the k-th on at position i of s. Each
\* repetition is followed by a character outside its class, so the greedy
\* match is the only one and there is nothing to backtrack into.
RECURSIVE MatchFrom(_, _, _, _)
MatchDigits(s, i, j, k, groups) ==
    IF j > i
    THEN MatchFrom(s, j, k + 1, Append(groups, SubSeq(s, i, j - 1)))
    ELSE NoMatch

MatchFrom(s, i, k, groups) ==
    IF k > Len(RgbPattern)
    THEN [matched |-> TRUE, groups |-> groups]
    ELSE IF RgbPattern[k].kind = "literal"
         THEN IF i <= Len(s) /\ s[i] = RgbPattern[k].ch
              THEN MatchFrom(s, i + 1, k + 1, groups)
              ELSE NoMatch
         ELSE IF RgbPattern[k].kind = "digits"
              THEN MatchDigits(s, i, SkipWhile(s, i, DigitSet), k, groups)
              ELSE MatchFrom(s, SkipWhile(s, i, Whitespace), k + 1, groups)

\* re.search: the match at the leftmost position that has one
RECURSIVE SearchFrom(_, _)
FirstMatch(s, i, here) ==
    IF here.matched THEN here ELSE SearchFrom(s, i + 1)

SearchFrom(s, i) ==
    IF i > Len(s) THEN NoMatch ELSE FirstMatch(s, i, MatchFrom(s, i, 1, <<>>))

RgbSearch(s) == SearchFrom(s, 1)

----------------------------------------------------------------------------
(* ContrastChecker._parse_color *)

Black == from_rgb_bytes(0, 0, 0)

\* lines 243-250: Color(color_str) for a name, black on ValueError
NamedOrBlack(named) == IF IsRaise(named) THEN Black ELSE named

\* lines 237-240, and 243-250 when the pattern does not match
ParseRgb(s, rgb_match) ==
    IF rgb_match.matched
    THEN ColorFromBytesRatio(int(rgb_match.groups[1]), int(rgb_match.groups[2]),
                             int(rgb_match.groups[3]))
    ELSE NamedOrBlack(ColorFromString(s))

\* lines 231-250 on the stripped string
ParseStripped(s) ==
    IF startswith(s, <<"#">>)
    THEN ColorFromString(s)                    \* a ValueError escapes
    ELSE IF startswith(s, <<"r", "g", "b">>)
         THEN ParseRgb(s, RgbSearch(s))
         ELSE NamedOrBlack(ColorFromString(s))

ParseColorBodyUnstripped(color_str) ==
    IF color_str.type # "str"
    THEN Raise("AttributeError")
    ELSE ParseStripped(color_str.chars)

\* the body of the outer try: a Color, or the exception that escapes it
ParseColorBody(color_str) ==
    IF color_str.type # "str"
    THEN Raise("AttributeError")               \* no strip() on a non-string
    ELSE ParseStripped(strip(color_str.chars))

\* except Exception: return None
NoneOnException(body) == IF IsRaise(body) THEN None ELSE body

_parse_color(color_str) == NoneOnException(ParseColorBody(color_str))

----------------------------------------------------------------------------
(* ContrastChecker._get_relative_luminance *)

\* pow((value + 0.055) / 1.055, 2.4) for value = c / ChannelScale, scaled by
\* GammaScale and rounded to the nearest integer; entry c - 100 holds the
\* value for c, from c = 101 up to the largest channel an input parses to
\* (3922 for rgb(99999, 0, 0), which Color() leaves above 1.0)
pow_2_4 ==
    <<
    613, 619, 625, 631, 638, 644, 650, 657, 663, 669, 676, 682, 689, 695,
    702, 708, 715, 722, 729, 735, 742, 749, 756, 763, 770, 777, 784, 791,
    798, 805, 812, 819, 827, 834, 841, 849, 856, 863, 871, 878, 886, 893,
    901, 909, 916, 924, 932, 940, 948, 955, 963, 971, 979, 987, 995, 1003,
    1012, 1020, 1028, 1036, 1045, 1053, 1061, 1070, 1078, 1087, 1095, 1104, 1112, 1121,
    1130, 1139, 1147, 1156, 1165, 1174, 1183, 1192, 1201, 1210, 1219, 1228, 1237, 1246,
    1256, 1265, 1274, 1284, 1293, 1302, 1312, 1321, 1331, 1341, 1350, 1360, 1370, 1379,
    1389, 1399, 1409, 1419, 1429, 1439, 1449, 1459, 1469, 1479, 1490, 1500, 1510, 1520,
    1531, 1541, 1552, 1562, 1573, 1583, 1594, 1605, 1615, 1626, 1637, 1648, 1659, 1670,
    1680, 1691, 1703, 1714, 1725, 1736, 1747, 1758, 1770, 1781, 1792, 1804, 1815, 1827,
    1838, 1850, 1862, 1873, 1885, 1897, 1909, 1920, 1932, 1944, 1956, 1968, 1980, 1992,
    2005, 2017, 2029, 2041, 2054, 2066, 2078, 2091, 2103, 2116, 2128, 2141, 2154, 2166,
    2179, 2192, 2205, 2218, 2231, 2244, 2257, 2270, 2283, 2296, 2309, 2322, 2336, 2349,
    2362, 2376, 2389, 2403, 2416, 2430, 2444, 2457, 2471, 2485, 2499, 2512, 2526, 2540,
    2554, 2568, 2582, 2597, 2611, 2625, 2639, 2654, 2668, 2682, 2697, 2711, 2726, 2740,
    2755, 2770, 2784, 2799, 2814, 2829, 2844, 2859, 2874, 2889, 2904, 2919, 2934, 2949,
    2965, 2980, 2995, 3011, 3026, 3042, 3057, 3073, 3088, 3104, 3120, 3136, 3152, 3167,
    3183, 3199, 3215, 3231, 3247, 3264, 3280, 3296, 3312, 3329, 3345, 3361, 3378, 3394,
    3411, 3428, 3444, 3461, 3478, 3495, 3511, 3528, 3545, 3562, 3579, 3596, 3614, 3631,
    3648, 3665, 3683, 3700, 3717, 3735, 3752, 3770, 3788, 3805, 3823, 3841, 3859, 3876,
    3894, 3912, 3930, 3948, 3966, 3985, 4003, 4021, 4039, 4058, 4076, 4095, 4113, 4132,
    4150, 4169, 4187, 4206, 4225, 4244, 4263, 4282, 4301, 4320, 4339, 4358, 4377, 4396,
    4415, 4435, 4454, 4474, 4493, 4513, 4532, 4552, 4571, 4591, 4611, 4631, 4651, 4670,
    4690, 4710, 4730, 4751, 4771, 4791, 4811, 4832, 4852, 4872, 4893, 4913, 4934, 4954,
    4975, 4996, 5017, 5037, 5058, 5079, 5100, 5121, 5142, 5163, 5184, 5206, 5227, 5248,
    5270, 5291, 5312, 5334, 5356, 5377, 5399, 5421, 5442, 5464, 5486, 5508, 5530, 5552,
    5574, 5596, 5618, 5641, 5663, 5685, 5708, 5730, 5753, 5775, 5798, 5820, 5843, 5866,
    5889, 5911, 5934, 5957, 5980, 6003, 6026, 6050, 6073, 6096, 6119, 6143, 6166, 6190,
    6213, 6237, 6260, 6284, 6308, 6331, 6355, 6379, 6403, 6427, 6451, 6475, 6499, 6524,
    6548, 6572, 6597, 6621, 6645, 6670, 6695, 6719, 6744, 6769, 6793, 6818, 6843, 6868,
    6893, 6918, 6943, 6968, 6993, 7019, 7044, 7069, 7095, 7120, 7146, 7171, 7197, 7223,
    7248, 7274, 7300, 7326, 7352, 7378, 7404, 7430, 7456, 7482, 7509, 7535, 7561, 7588,
    7614, 7641, 7667, 7694, 7721, 7748, 7774, 7801, 7828, 7855, 7882, 7909, 7936, 7964,
    7991, 8018, 8045, 8073, 8100, 8128, 8155, 8183, 8211, 8238, 8266, 8294, 8322, 8350,
    8378, 8406, 8434, 8462, 8491, 8519, 8547, 8576, 8604, 8632, 8661, 8690, 8718, 8747,
    8776, 8805, 8833, 8862, 8891, 8920, 8950, 8979, 9008, 9037, 9067, 9096, 9125, 9155,
    9184, 9214, 9244, 9273, 9303, 9333, 9363, 9393, 9423, 9453, 9483, 9513, 9543, 9574,
    9604, 9634, 9665, 9695, 9726, 9756, 9787, 9818, 9849, 9879, 9910, 9941, 9972, 10003,
    10034, 10066, 10097, 10128, 10160, 10191, 10222, 10254, 10285, 10317, 10349, 10381, 10412, 10444,
    10476, 10508, 10540, 10572, 10604, 10636, 10669, 10701, 10733, 10766, 10798, 10831, 10863, 10896,
    10929, 10962, 10994, 11027, 11060, 11093, 11126, 11159, 11192, 11226, 11259, 11292, 11326, 11359,
    11393, 11426, 11460, 11494, 11527, 11561, 11595, 11629, 11663, 11697, 11731, 11765, 11799, 11834,
    11868, 11902, 11937, 11971, 12006, 12040, 12075, 12110, 12145, 12179, 12214, 12249, 12284, 12319,
    12354, 12390, 12425, 12460, 12496, 12531, 12566, 12602, 12638, 12673, 12709, 12745, 12781, 12816,
    12852, 12888, 12925, 12961, 12997, 13033, 13069, 13106, 13142, 13179, 13215, 13252, 13288, 13325,
    13362, 13399, 13436, 13473, 13510, 13547, 13584, 13621, 13658, 13696, 13733, 13770, 13808, 13845,
    13883, 13921, 13958, 13996, 14034, 14072, 14110, 14148, 14186, 14224, 14262, 14301, 14339, 14377,
    14416, 14454, 14493, 14532, 14570, 14609, 14648, 14687, 14726, 14765, 14804, 14843, 14882, 14921,
    14960, 15000, 15039, 15079, 15118, 15158, 15197, 15237, 15277, 15317, 15357, 15397, 15437, 15477,
    15517, 15557, 15597, 15637, 15678, 15718, 15759, 15799, 15840, 15881, 15921, 15962, 16003, 16044,
    16085, 16126, 16167, 16208, 16249, 16291, 16332, 16374, 16415, 16457, 16498, 16540, 16582, 16623,
    16665, 16707, 16749, 16791, 16833, 16875, 16917, 16960, 17002, 17044, 17087, 17129, 17172, 17215,
    17257, 17300, 17343, 17386, 17429, 17472, 17515, 17558, 17601, 17644, 17688, 17731, 17775, 17818,
    17862, 17905, 17949, 17993, 18037, 18080, 18124, 18168, 18212, 18257, 18301, 18345, 18389, 18434,
    18478, 18523, 18567, 18612, 18656, 18701, 18746, 18791, 18836, 18881, 18926, 18971, 19016, 19061,
    19107, 19152, 19198, 19243, 19289, 19334, 19380, 19426, 19472, 19517, 19563, 19609, 19655, 19702,
    19748, 19794, 19840, 19887, 19933, 19980, 20026, 20073, 20120, 20166, 20213, 20260, 20307, 20354,
    20401, 20448, 20496, 20543, 20590, 20638, 20685, 20733, 20780, 20828, 20876, 20923, 20971, 21019,
    21067, 21115, 21163, 21211, 21260, 21308, 21356, 21405, 21453, 21502, 21550, 21599, 21648, 21696,
    21745, 21794, 21843, 21892, 21941, 21991, 22040, 22089, 22139, 22188, 22238, 22287, 22337, 22386,
    22436, 22486, 22536, 22586, 22636, 22686, 22736, 22786, 22837, 22887, 22937, 22988, 23039, 23089,
    23140, 23191, 23241, 23292, 23343, 23394, 23445, 23496, 23548, 23599, 23650, 23701, 23753, 23804,
    23856, 23908, 23959, 24011, 24063, 24115, 24167, 24219, 24271, 24323, 24375, 24428, 24480, 24533,
    24585, 24638, 24690, 24743, 24796, 24849, 24901, 24954, 25007, 25060, 25114, 25167, 25220, 25273,
    25327, 25380, 25434, 25488, 25541, 25595, 25649, 25703, 25757, 25811, 25865, 25919, 25973, 26027,
    26082, 26136, 26191, 26245, 26300, 26354, 26409, 26464, 26519, 26574, 26629, 26684, 26739, 26794,
    26849, 26905, 26960, 27016, 27071, 27127, 27182, 27238, 27294, 27350, 27406, 27462, 27518, 27574,
    27630, 27686, 27743, 27799, 27856, 27912, 27969, 28025, 28082, 28139, 28196, 28253, 28310, 28367,
    28424, 28481, 28538, 28596, 28653, 28711, 28768, 28826, 28883, 28941, 28999, 29057, 29115, 29173,
    29231, 29289, 29347, 29405, 29464, 29522, 29581, 29639, 29698, 29757, 29815, 29874, 29933, 29992,
    30051, 30110, 30169, 30228, 30288, 30347, 30407, 30466, 30526, 30585, 30645, 30705, 30765, 30824,
    30884, 30944, 31005, 31065, 31125, 31185, 31246, 31306, 31367, 31427, 31488, 31549, 31609, 31670,
    31731, 31792, 31853, 31914, 31976, 32037, 32098, 32160, 32221, 32283, 32344, 32406, 32468, 32529,
    32591, 32653, 32715, 32777, 32840, 32902, 32964, 33026, 33089, 33151, 33214, 33277, 33339, 33402,
    33465, 33528, 33591, 33654, 33717, 33780, 33843, 33907, 33970, 34034, 34097, 34161, 34224, 34288,
    34352, 34416, 34480, 34544, 34608, 34672, 34736, 34801, 34865, 34929, 34994, 35059, 35123, 35188,
    35253, 35318, 35382, 35447, 35513, 35578, 35643, 35708, 35774, 35839, 35904, 35970, 36036, 36101,
    36167, 36233, 36299, 36365, 36431, 36497, 36563, 36629, 36696, 36762, 36828, 36895, 36962, 37028,
    37095, 37162, 37229, 37296, 37363, 37430, 37497, 37564, 37631, 37699, 37766, 37834, 37901, 37969,
    38037, 38105, 38172, 38240, 38308, 38376, 38445, 38513, 38581, 38649, 38718, 38786, 38855, 38924,
    38992, 39061, 39130, 39199, 39268, 39337, 39406, 39475, 39545, 39614, 39683, 39753, 39822, 39892,
    39962, 40031, 40101, 40171, 40241, 40311, 40381, 40452, 40522, 40592, 40663, 40733, 40804, 40874,
    40945, 41016, 41087, 41158, 41228, 41300, 41371, 41442, 41513, 41584, 41656, 41727, 41799, 41871,
    41942, 42014, 42086, 42158, 42230, 42302, 42374, 42446, 42518, 42591, 42663, 42736, 42808, 42881,
    42954, 43026, 43099, 43172, 43245, 43318, 43391, 43464, 43538, 43611, 43685, 43758, 43832, 43905,
    43979, 44053, 44127, 44201, 44275, 44349, 44423, 44497, 44571, 44646, 44720, 44795, 44869, 44944,
    45018, 45093, 45168, 45243, 45318, 45393, 45468, 45544, 45619, 45694, 45770, 45845, 45921, 45996,
    46072, 46148, 46224, 46300, 46376, 46452, 46528, 46604, 46681, 46757, 46834, 46910, 46987, 47063,
    47140, 47217, 47294, 47371, 47448, 47525, 47602, 47680, 47757, 47834, 47912, 47989, 48067, 48145,
    48222, 48300, 48378, 48456, 48534, 48612, 48691, 48769, 48847, 48926, 49004, 49083, 49162, 49240,
    49319, 49398, 49477, 49556, 49635, 49714, 49793, 49873, 49952, 50032, 50111, 50191, 50271, 50350,
    50430, 50510, 50590, 50670, 50750, 50830, 50911, 50991, 51071, 51152, 51233, 51313, 51394, 51475,
    51556, 51637, 51718, 51799, 51880, 51961, 52042, 52124, 52205, 52287, 52368, 52450, 52532, 52614,
    52696, 52778, 52860, 52942, 53024, 53106, 53189, 53271, 53354, 53436, 53519, 53602, 53684, 53767,
    53850, 53933, 54016, 54100, 54183, 54266, 54350, 54433, 54517, 54600, 54684, 54768, 54852, 54935,
    55019, 55104, 55188, 55272, 55356, 55441, 55525, 55610, 55694, 55779, 55864, 55948, 56033, 56118,
    56203, 56288, 56374, 56459, 56544, 56630, 56715, 56801, 56886, 56972, 57058, 57144, 57230, 57316,
    57402, 57488, 57574, 57661, 57747, 57834, 57920, 58007, 58094, 58180, 58267, 58354, 58441, 58528,
    58615, 58703, 58790, 58877, 58965, 59052, 59140, 59228, 59315, 59403, 59491, 59579, 59667, 59755,
    59844, 59932, 60020, 60109, 60197, 60286, 60375, 60463, 60552, 60641, 60730, 60819, 60908, 60997,
    61087, 61176, 61266, 61355, 61445, 61534, 61624, 61714, 61804, 61894, 61984, 62074, 62164, 62254,
    62345, 62435, 62526, 62616, 62707, 62798, 62889, 62979, 63070, 63161, 63253, 63344, 63435, 63526,
    63618, 63709, 63801, 63893, 63984, 64076, 64168, 64260, 64352, 64444, 64536, 64629, 64721, 64813,
    64906, 64999, 65091, 65184, 65277, 65370, 65463, 65556, 65649, 65742, 65835, 65929, 66022, 66116,
    66209, 66303, 66396, 66490, 66584, 66678, 66772, 66866, 66961, 67055, 67149, 67244, 67338, 67433,
    67527, 67622, 67717, 67812, 67907, 68002, 68097, 68192, 68288, 68383, 68478, 68574, 68669, 68765,
    68861, 68957, 69053, 69149, 69245, 69341, 69437, 69533, 69630, 69726, 69823, 69919, 70016, 70113,
    70210, 70307, 70404, 70501, 70598, 70695, 70792, 70890, 70987, 71085, 71182, 71280, 71378, 71476,
    71574, 71672, 71770, 71868, 71966, 72064, 72163, 72261, 72360, 72459, 72557, 72656, 72755, 72854,
    72953, 73052, 73151, 73251, 73350, 73449, 73549, 73648, 73748, 73848, 73948, 74048, 74147, 74248,
    74348, 74448, 74548, 74649, 74749, 74850, 74950, 75051, 75152, 75252, 75353, 75454, 75555, 75657,
    75758, 75859, 75961, 76062, 76164, 76265, 76367, 76469, 76571, 76673, 76775, 76877, 76979, 77081,
    77183, 77286, 77388, 77491, 77594, 77696, 77799, 77902, 78005, 78108, 78211, 78314, 78418, 78521,
    78625, 78728, 78832, 78935, 79039, 79143, 79247, 79351, 79455, 79559, 79664, 79768, 79872, 79977,
    80081, 80186, 80291, 80396, 80500, 80605, 80710, 80816, 80921, 81026, 81131, 81237, 81342, 81448,
    81554, 81659, 81765, 81871, 81977, 82083, 82190, 82296, 82402, 82509, 82615, 82722, 82828, 82935,
    83042, 83149, 83256, 83363, 83470, 83577, 83684, 83792, 83899, 84007, 84114, 84222, 84330, 84438,
    84546, 84654, 84762, 84870, 84978, 85086, 85195, 85303, 85412, 85521, 85629, 85738, 85847, 85956,
    86065, 86174, 86283, 86393, 86502, 86612, 86721, 86831, 86940, 87050, 87160, 87270, 87380, 87490,
    87600, 87711, 87821, 87931, 88042, 88153, 88263, 88374, 88485, 88596, 88707, 88818, 88929, 89040,
    89152, 89263, 89374, 89486, 89598, 89709, 89821, 89933, 90045, 90157, 90269, 90382, 90494, 90606,
    90719, 90831, 90944, 91057, 91169, 91282, 91395, 91508, 91621, 91735, 91848, 91961, 92075, 92188,
    92302, 92415, 92529, 92643, 92757, 92871, 92985, 93099, 93213, 93328, 93442, 93557, 93671, 93786,
    93901, 94016, 94131, 94246, 94361, 94476, 94591, 94706, 94822, 94937, 95053, 95168, 95284, 95400,
    95516, 95632, 95748, 95864, 95980, 96097, 96213, 96329, 96446, 96563, 96679, 96796, 96913, 97030,
    97147, 97264, 97381, 97499, 97616, 97734, 97851, 97969, 98086, 98204, 98322, 98440, 98558, 98676,
    98794, 98913, 99031, 99149, 99268, 99387, 99505, 99624, 99743, 99862, 99981, 100100, 100219, 100338,
    100458, 100577, 100697, 100816, 100936, 101056, 101176, 101296, 101416, 101536, 101656, 101776, 101897, 102017,
    102138, 102258, 102379, 102500, 102620, 102741, 102862, 102984, 103105, 103226, 103347, 103469, 103590, 103712,
    103834, 103955, 104077, 104199, 104321, 104443, 104565, 104688, 104810, 104932, 105055, 105178, 105300, 105423,
    105546, 105669, 105792, 105915, 106038, 106161, 106285, 106408, 106532, 106655, 106779, 106903, 107027, 107151,
    107275, 107399, 107523, 107647, 107771, 107896, 108020, 108145, 108270, 108394, 108519, 108644, 108769, 108894,
    109020, 109145, 109270, 109396, 109521, 109647, 109773, 109898, 110024, 110150, 110276, 110402, 110528, 110655,
    110781, 110908, 111034, 111161, 111287, 111414, 111541, 111668, 111795, 111922, 112049, 112177, 112304, 112432,
    112559, 112687, 112814, 112942, 113070, 113198, 113326, 113454, 113583, 113711, 113839, 113968, 114096, 114225,
    114354, 114483, 114611, 114740, 114869, 114999, 115128, 115257, 115387, 115516, 115646, 115775, 115905, 116035,
    116165, 116295, 116425, 116555, 116685, 116816, 116946, 117077, 117207, 117338, 117469, 117600, 117730, 117861,
    117993, 118124, 118255, 118386, 118518, 118649, 118781, 118913, 119044, 119176, 119308, 119440, 119572, 119705,
    119837, 119969, 120102, 120234, 120367, 120500, 120633, 120765, 120898, 121032, 121165, 121298, 121431, 121565,
    121698, 121832, 121965, 122099, 122233, 122367, 122501, 122635, 122769, 122903, 123038, 123172, 123307, 123441,
    123576, 123711, 123846, 123981, 124116, 124251, 124386, 124521, 124657, 124792, 124928, 125063, 125199, 125335,
    125471, 125607, 125743, 125879, 126015, 126151, 126288, 126424, 126561, 126698, 126834, 126971, 127108, 127245,
    127382, 127519, 127657, 127794, 127931, 128069, 128207, 128344, 128482, 128620, 128758, 128896, 129034, 129172,
    129311, 129449, 129587, 129726, 129865, 130003, 130142, 130281, 130420, 130559, 130698, 130838, 130977, 131116,
    131256, 131396, 131535, 131675, 131815, 131955, 132095, 132235, 132375, 132515, 132656, 132796, 132937, 133077,
    133218, 133359, 133500, 133641, 133782, 133923, 134064, 134206, 134347, 134489, 134630, 134772, 134914, 135056,
    135197, 135340, 135482, 135624, 135766, 135908, 136051, 136194, 136336, 136479, 136622, 136765, 136908, 137051,
    137194, 137337, 137480, 137624, 137767, 137911, 138055, 138198, 138342, 138486, 138630, 138774, 138919, 139063,
    139207, 139352, 139496, 139641, 139786, 139930, 140075, 140220, 140365, 140511, 140656, 140801, 140947, 141092,
    141238, 141383, 141529, 141675, 141821, 141967, 142113, 142260, 142406, 142552, 142699, 142845, 142992, 143139,
    143286, 143432, 143579, 143727, 143874, 144021, 144168, 144316, 144463, 144611, 144759, 144907, 145054, 145202,
    145350, 145499, 145647, 145795, 145944, 146092, 146241, 146389, 146538, 146687, 146836, 146985, 147134, 147283,
    147433, 147582, 147732, 147881, 148031, 148181, 148330, 148480, 148630, 148780, 148931, 149081, 149231, 149382,
    149532, 149683, 149834, 149984, 150135, 150286, 150437, 150588, 150740, 150891, 151042, 151194, 151346, 151497,
    151649, 151801, 151953, 152105, 152257, 152409, 152562, 152714, 152866, 153019, 153172, 153324, 153477, 153630,
    153783, 153936, 154090, 154243, 154396, 154550, 154703, 154857, 155011, 155164, 155318, 155472, 155626, 155781,
    155935, 156089, 156244, 156398, 156553, 156708, 156862, 157017, 157172, 157327, 157482, 157638, 157793, 157948,
    158104, 158260, 158415, 158571, 158727, 158883, 159039, 159195, 159351, 159508, 159664, 159821, 159977, 160134,
    160291, 160447, 160604, 160761, 160919, 161076, 161233, 161390, 161548, 161706, 161863, 162021, 162179, 162337,
    162495, 162653, 162811, 162969, 163128, 163286, 163445, 163603, 163762, 163921, 164080, 164239, 164398, 164557,
    164716, 164876, 165035, 165195, 165354, 165514, 165674, 165834, 165994, 166154, 166314, 166474, 166635, 166795,
    166956, 167116, 167277, 167438, 167599, 167760, 167921, 168082, 168243, 168405, 168566, 168728, 168889, 169051,
    169213, 169375, 169537, 169699, 169861, 170023, 170185, 170348, 170510, 170673, 170836, 170999, 171161, 171324,
    171487, 171651, 171814, 171977, 172141, 172304, 172468, 172631, 172795, 172959, 173123, 173287, 173451, 173616,
    173780, 173944, 174109, 174273, 174438, 174603, 174768, 174933, 175098, 175263, 175428, 175594, 175759, 175924,
    176090, 176256, 176422, 176587, 176753, 176919, 177086, 177252, 177418, 177585, 177751, 177918, 178084, 178251,
    178418, 178585, 178752, 178919, 179087, 179254, 179421, 179589, 179756, 179924, 180092, 180260, 180428, 180596,
    180764, 180932, 181101, 181269, 181438, 181606, 181775, 181944, 182113, 182282, 182451, 182620, 182789, 182958,
    183128, 183297, 183467, 183637, 183806, 183976, 184146, 184316, 184487, 184657, 184827, 184998, 185168, 185339,
    185509, 185680, 185851, 186022, 186193, 186364, 186536, 186707, 186879, 187050, 187222, 187393, 187565, 187737,
    187909, 188081, 188253, 188426, 188598, 188771, 188943, 189116, 189288, 189461, 189634, 189807, 189980, 190154,
    190327, 190500, 190674, 190847, 191021, 191195, 191369, 191542, 191716, 191891, 192065, 192239, 192414, 192588,
    192763, 192937, 193112, 193287, 193462, 193637, 193812, 193987, 194163, 194338, 194513, 194689, 194865, 195041,
    195216, 195392, 195568, 195745, 195921, 196097, 196274, 196450, 196627, 196803, 196980, 197157, 197334, 197511,
    197688, 197866, 198043, 198220, 198398, 198576, 198753, 198931, 199109, 199287, 199465, 199643, 199822, 200000,
    200178, 200357, 200536, 200714, 200893, 201072, 201251, 201430, 201610, 201789, 201968, 202148, 202327, 202507,
    202687, 202867, 203047, 203227, 203407, 203587, 203767, 203948, 204128, 204309, 204490, 204670, 204851, 205032,
    205213, 205395, 205576, 205757, 205939, 206120, 206302, 206483, 206665, 206847, 207029, 207211, 207394, 207576,
    207758, 207941, 208123, 208306, 208489, 208671, 208854, 209037, 209221, 209404, 209587, 209771, 209954, 210138,
    210321, 210505, 210689, 210873, 211057, 211241, 211425, 211610, 211794, 211979, 212163, 212348, 212533, 212718,
    212903, 213088, 213273, 213458, 213644, 213829, 214015, 214200, 214386, 214572, 214758, 214944, 215130, 215316,
    215503, 215689, 215876, 216062, 216249, 216436, 216623, 216810, 216997, 217184, 217371, 217558, 217746, 217933,
    218121, 218309, 218497, 218684, 218872, 219061, 219249, 219437, 219625, 219814, 220003, 220191, 220380, 220569,
    220758, 220947, 221136, 221325, 221515, 221704, 221894, 222083, 222273, 222463, 222653, 222843, 223033, 223223,
    223413, 223603, 223794, 223984, 224175, 224366, 224557, 224748, 224939, 225130, 225321, 225512, 225704, 225895,
    226087, 226279, 226470, 226662, 226854, 227046, 227238, 227431, 227623, 227816, 228008, 228201, 228394, 228586,
    228779, 228972, 229165, 229359, 229552, 229745, 229939, 230132, 230326, 230520, 230714, 230908, 231102, 231296,
    231490, 231685, 231879, 232074, 232268, 232463, 232658, 232853, 233048, 233243, 233438, 233633, 233829, 234024,
    234220, 234416, 234611, 234807, 235003, 235199, 235396, 235592, 235788, 235985, 236181, 236378, 236575, 236771,
    236968, 237165, 237362, 237560, 237757, 237954, 238152, 238349, 238547, 238745, 238943, 239141, 239339, 239537,
    239735, 239934, 240132, 240331, 240529, 240728, 240927, 241126, 241325, 241524, 241723, 241923, 242122, 242322,
    242521, 242721, 242921, 243121, 243321, 243521, 243721, 243921, 244121, 244322, 244523, 244723, 244924, 245125,
    245326, 245527, 245728, 245929, 246131, 246332, 246533, 246735, 246937, 247139, 247341, 247543, 247745, 247947,
    248149, 248352, 248554, 248757, 248959, 249162, 249365, 249568, 249771, 249974, 250177, 250381, 250584, 250788,
    250991, 251195, 251399, 251603, 251807, 252011, 252215, 252420, 252624, 252829, 253033, 253238, 253443, 253648,
    253853, 254058, 254263, 254468, 254674, 254879, 255085, 255290, 255496, 255702, 255908, 256114, 256320, 256526,
    256733, 256939, 257146, 257352, 257559, 257766, 257973, 258180, 258387, 258594, 258802, 259009, 259217, 259424,
    259632, 259840, 260048, 260256, 260464, 260672, 260880, 261089, 261297, 261506, 261714, 261923, 262132, 262341,
    262550, 262759, 262968, 263178, 263387, 263597, 263806, 264016, 264226, 264436, 264646, 264856, 265066, 265277,
    265487, 265698, 265908, 266119, 266330, 266541, 266752, 266963, 267174, 267385, 267597, 267808, 268020, 268232,
    268443, 268655, 268867, 269079, 269292, 269504, 269716, 269929, 270141, 270354, 270567, 270780, 270993, 271206,
    271419, 271632, 271845, 272059, 272272, 272486, 272700, 272914, 273128, 273342, 273556, 273770, 273984, 274199,
    274413, 274628, 274843, 275057, 275272, 275487, 275702, 275918, 276133, 276348, 276564, 276780, 276995, 277211,
    277427, 277643, 277859, 278075, 278292, 278508, 278724, 278941, 279158, 279374, 279591, 279808, 280025, 280243,
    280460, 280677, 280895, 281112, 281330, 281548, 281766, 281984, 282202, 282420, 282638, 282856, 283075, 283293,
    283512, 283731, 283950, 284169, 284388, 284607, 284826, 285045, 285265, 285484, 285704, 285924, 286143, 286363,
    286583, 286804, 287024, 287244, 287465, 287685, 287906, 288126, 288347, 288568, 288789, 289010, 289231, 289453,
    289674, 289896, 290117, 290339, 290561, 290783, 291005, 291227, 291449, 291671, 291894, 292116, 292339, 292562,
    292784, 293007, 293230, 293453, 293676, 293900, 294123, 294347, 294570, 294794, 295018, 295242, 295466, 295690,
    295914, 296138, 296363, 296587, 296812, 297036, 297261, 297486, 297711, 297936, 298161, 298386, 298612, 298837,
    299063, 299288, 299514, 299740, 299966, 300192, 300418, 300645, 300871, 301097, 301324, 301551, 301777, 302004,
    302231, 302458, 302685, 302913, 303140, 303367, 303595, 303823, 304050, 304278, 304506, 304734, 304962, 305191,
    305419, 305648, 305876, 306105, 306334, 306562, 306791, 307020, 307250, 307479, 307708, 307938, 308167, 308397,
    308627, 308856, 309086, 309316, 309547, 309777, 310007, 310238, 310468, 310699, 310930, 311160, 311391, 311622,
    311854, 312085, 312316, 312548, 312779, 313011, 313243, 313474, 313706, 313938, 314170, 314403, 314635, 314868,
    315100, 315333, 315565, 315798, 316031, 316264, 316497, 316731, 316964, 317198, 317431, 317665, 317899, 318132,
    318366, 318600, 318835, 319069, 319303, 319538, 319772, 320007, 320242, 320476, 320711, 320946, 321182, 321417,
    321652, 321888, 322123, 322359, 322595, 322831, 323066, 323303, 323539, 323775, 324011, 324248, 324484, 324721,
    324958, 325195, 325432, 325669, 325906, 326143, 326380, 326618, 326856, 327093, 327331, 327569, 327807, 328045,
    328283, 328521, 328760, 328998, 329237, 329475, 329714, 329953, 330192, 330431, 330670, 330910, 331149, 331389,
    331628, 331868, 332108, 332348, 332588, 332828, 333068, 333308, 333549, 333789, 334030, 334270, 334511, 334752,
    334993, 335234, 335475, 335717, 335958, 336200, 336441, 336683, 336925, 337167, 337409, 337651, 337893, 338135,
    338378, 338620, 338863, 339106, 339348, 339591, 339834, 340078, 340321, 340564, 340808, 341051, 341295, 341538,
    341782, 342026, 342270, 342514, 342759, 343003, 343248, 343492, 343737, 343982, 344226, 344471, 344716, 344962,
    345207, 345452, 345698, 345943, 346189, 346435, 346681, 346927, 347173, 347419, 347665, 347911, 348158, 348405,
    348651, 348898, 349145, 349392, 349639, 349886, 350134, 350381, 350628, 350876, 351124, 351372, 351619, 351867,
    352116, 352364, 352612, 352861, 353109, 353358, 353606, 353855, 354104, 354353, 354602, 354852, 355101, 355350,
    355600, 355850, 356099, 356349, 356599, 356849, 357099, 357350, 357600, 357850, 358101, 358352, 358603, 358853,
    359104, 359355, 359607, 359858, 360109, 360361, 360612, 360864, 361116, 361368, 361620, 361872, 362124, 362376,
    362629, 362881, 363134, 363387, 363640, 363892, 364145, 364399, 364652, 364905, 365159, 365412, 365666, 365920,
    366173, 366427, 366681, 366936, 367190, 367444, 367699, 367953, 368208, 368463, 368718, 368973, 369228, 369483,
    369738, 369993, 370249, 370505, 370760, 371016, 371272, 371528, 371784, 372040, 372297, 372553, 372810, 373066,
    373323, 373580, 373837, 374094, 374351, 374608, 374865, 375123, 375380, 375638, 375896, 376154, 376412, 376670,
    376928, 377186, 377445, 377703, 377962, 378220, 378479, 378738, 378997, 379256, 379515, 379775, 380034, 380294,
    380553, 380813, 381073, 381333, 381593, 381853, 382113, 382373, 382634, 382894, 383155, 383416, 383677, 383938,
    384199, 384460, 384721, 384983, 385244, 385506, 385767, 386029, 386291, 386553, 386815, 387077, 387340, 387602,
    387865, 388127, 388390, 388653, 388916, 389179, 389442, 389705, 389968, 390232, 390495, 390759, 391023, 391287,
    391551, 391815, 392079, 392343, 392608, 392872, 393137, 393401, 393666, 393931, 394196, 394461, 394726, 394992,
    395257, 395523, 395788, 396054, 396320, 396586, 396852, 397118, 397384, 397651, 397917, 398184, 398450, 398717,
    398984, 399251, 399518, 399785, 400053, 400320, 400588, 400855, 401123, 401391, 401659, 401927, 402195, 402463,
    402731, 403000, 403268, 403537, 403806, 404075, 404344, 404613, 404882, 405151, 405421, 405690, 405960, 406229,
    406499, 406769, 407039, 407309, 407579, 407850, 408120, 408391, 408661, 408932, 409203, 409474, 409745, 410016,
    410287, 410559, 410830, 411102, 411374, 411645, 411917, 412189, 412461, 412734, 413006, 413278, 413551, 413823,
    414096, 414369, 414642, 414915, 415188, 415461, 415735, 416008, 416282, 416555, 416829, 417103, 417377, 417651,
    417925, 418200, 418474, 418749, 419023, 419298, 419573, 419848, 420123, 420398, 420673, 420949, 421224, 421500,
    421775, 422051, 422327, 422603, 422879, 423155, 423432, 423708, 423984, 424261, 424538, 424815, 425092, 425369,
    425646, 425923, 426200, 426478, 426755, 427033, 427311, 427589, 427867, 428145, 428423, 428701, 428980, 429258,
    429537, 429816, 430094, 430373, 430652, 430932, 431211, 431490, 431770, 432049, 432329, 432609, 432889, 433169,
    433449, 433729, 434009, 434290, 434570, 434851, 435132, 435412, 435693, 435974, 436256, 436537, 436818, 437100,
    437381, 437663, 437945, 438227, 438509, 438791, 439073, 439355, 439638, 439920, 440203, 440486, 440768, 441051,
    441334, 441618, 441901, 442184, 442468, 442751, 443035, 443319, 443603, 443887, 444171, 444455, 444739, 445024,
    445308, 445593, 445878, 446163, 446448, 446733, 447018, 447303, 447589, 447874, 448160, 448445, 448731, 449017,
    449303, 449589, 449876, 450162, 450448, 450735, 451022, 451308, 451595, 451882, 452169, 452457, 452744, 453031,
    453319, 453606, 453894, 454182, 454470, 454758, 455046, 455334, 455623, 455911, 456200, 456489, 456777, 457066,
    457355, 457644, 457934, 458223, 458512, 458802, 459092, 459381, 459671, 459961, 460251, 460541, 460832, 461122,
    461413, 461703, 461994, 462285, 462576, 462867, 463158, 463449, 463741, 464032, 464324, 464615, 464907, 465199,
    465491, 465783, 466075, 466368, 466660, 466953, 467245, 467538, 467831, 468124, 468417, 468710, 469003, 469297,
    469590, 469884, 470177, 470471, 470765, 471059, 471353, 471648, 471942, 472236, 472531, 472826, 473121, 473415,
    473710, 474005, 474301, 474596, 474891, 475187, 475483, 475778, 476074, 476370, 476666, 476962, 477259, 477555,
    477852, 478148, 478445, 478742, 479039, 479336, 479633, 479930, 480227, 480525, 480823, 481120, 481418, 481716,
    482014, 482312, 482610, 482909, 483207, 483506, 483804, 484103, 484402, 484701, 485000, 485299, 485598, 485898,
    486197, 486497, 486797, 487096, 487396, 487696, 487997, 488297, 488597, 488898, 489198, 489499, 489800, 490101,
    490402, 490703, 491004, 491305, 491607, 491908, 492210, 492512, 492814, 493116, 493418, 493720, 494022, 494325,
    494627, 494930, 495233, 495535, 495838, 496141, 496445, 496748, 497051, 497355, 497658, 497962, 498266, 498570,
    498874, 499178, 499482, 499787, 500091, 500396, 500700, 501005, 501310, 501615, 501920, 502226, 502531, 502836,
    503142, 503448, 503753, 504059, 504365, 504671, 504978, 505284, 505590, 505897, 506203, 506510, 506817, 507124,
    507431, 507738, 508046, 508353, 508660, 508968, 509276, 509584, 509892, 510200, 510508, 510816, 511124, 511433,
    511741, 512050, 512359, 512668, 512977, 513286, 513595, 513905, 514214, 514524, 514833, 515143, 515453, 515763,
    516073, 516383, 516694, 517004, 517315, 517625, 517936, 518247, 518558, 518869, 519180, 519492, 519803, 520115,
    520426, 520738, 521050, 521362, 521674, 521986, 522298, 522611, 522923, 523236, 523549, 523861, 524174, 524487,
    524800, 525114, 525427, 525741, 526054, 526368, 526682, 526996, 527310, 527624, 527938, 528252, 528567, 528882,
    529196, 529511, 529826, 530141, 530456, 530771, 531087, 531402, 531718, 532033, 532349, 532665, 532981, 533297,
    533613, 533930, 534246, 534563, 534879, 535196, 535513, 535830, 536147, 536464, 536782, 537099, 537417, 537734
    >>

GammaCorrectLinear(value) ==
    RoundDiv(value * GammaScale, (ChannelScale * 1292) \div 100)

gamma_correct(value) ==
    IF value * 100000 <= 3928 * ChannelScale
    THEN RoundDiv(value * GammaScale * 100, ChannelScale * 1292)
    ELSE pow_2_4[value - 100]

RelativeLuminanceMistypedWeight(color) ==
    (2126 * gamma_correct(color.r) + 7152 * gamma_correct(color.g)
        + 772 * gamma_correct(color.b)) \div ((10000 * GammaScale) \div LumScale)

_get_relative_luminance(color) ==
    (2126 * gamma_correct(color.r) + 7152 * gamma_correct(color.g)
        + 722 * gamma_correct(color.b)) \div ((10000 * GammaScale) \div LumScale)

----------------------------------------------------------------------------
(* ContrastChecker._calculate_contrast_ratio *)

\* lines 267-271, with 0.05 on the scale of the luminances
RatioOfUnordered(lum1, lum2) ==
    RoundDiv(100 * (lum1 + (5 * LumScale) \div 100), lum2 + (5 * LumScale) \div 100)

RatioOfDarkerFirst(lum1, lum2) ==
    RoundDiv(100 * (Min(lum1, lum2) + (5 * LumScale) \div 100),
             Max(lum1, lum2) + (5 * LumScale) \div 100)

RatioOfRoundedToInteger(lum1, lum2) ==
    100 * RoundDiv(Max(lum1, lum2) + (5 * LumScale) \div 100,
                   Min(lum1, lum2) + (5 * LumScale) \div 100)

RatioOf(lum1, lum2) ==
    RoundDiv(100 * (Max(lum1, lum2) + (5 * LumScale) \div 100),
             Min(lum1, lum2) + (5 * LumScale) \div 100)

_calculate_contrast_ratio(color1, color2) ==
    RatioOf(_get_relative_luminance(color1), _get_relative_luminance(color2))

----------------------------------------------------------------------------
(* ContrastChecker._is_large_text *)

\* font_size >= <float> raises TypeError when font_size is not a number
IsLargeTextRaises(font_size, is_bold) ==
    font_size # None /\ font_size.type # "float"

IsLargeTextStrictlyAbove(font_size, is_bold) ==
    IF font_size = None
    THEN FALSE
    ELSE IF is_bold
         THEN font_size.tenths > LARGE_TEXT_BOLD_SIZE
         ELSE font_size.tenths > LARGE_TEXT_SIZE

\* the value returned when the comparison does not raise
_is_large_text(font_size, is_bold) ==
    IF font_size = None
    THEN FALSE
    ELSE IF is_bold
         THEN font_size.tenths >= LARGE_TEXT_BOLD_SIZE
         ELSE font_size.tenths >= LARGE_TEXT_SIZE

----------------------------------------------------------------------------
(* ContrastResult and ContrastChecker.check_contrast *)

_create_error_result(foreground, background, element_type) ==
    [foreground_color |-> foreground,
     background_color |-> background,
     contrast_ratio |-> 0,
     meets_aa_normal |-> FALSE,
     meets_aa_large |-> FALSE,
     meets_aaa_normal |-> FALSE,
     meets_aaa_large |-> FALSE,
     element_type |-> element_type,
     text_content |-> None,
     font_size |-> None,
     is_bold |-> FALSE]

\* the four compliance checks
MeetsAaNormal(ratio) == ratio >= AA_NORMAL_RATIO

MeetsAaLarge(ratio) == ratio >= AA_LARGE_RATIO

MeetsAaaNormalAgainstAaLarge(ratio) == ratio >= AA_LARGE_RATIO

MeetsAaaNormal(ratio) == ratio >= AAA_NORMAL_RATIO

MeetsAaaLargeAgainstAaaNormal(ratio) == ratio >= AAA_NORMAL_RATIO

MeetsAaaLarge(ratio) == ratio >= AAA_LARGE_RATIO

ResultOfTrimmed(ratio, foreground, background, element_type, text_content, font_size, is_bold) ==
    [foreground_color |-> Str(strip(foreground.chars)),
     background_color |-> Str(strip(background.chars)),
     contrast_ratio |-> ratio,
     meets_aa_normal |-> MeetsAaNormal(ratio),
     meets_aa_large |-> MeetsAaLarge(ratio),
     meets_aaa_normal |-> MeetsAaaNormal(ratio),
     meets_aaa_large |-> MeetsAaaLarge(ratio),
     element_type |-> element_type,
     text_content |-> text_content,
     font_size |-> font_size,
     is_bold |-> is_bold]

\* lines 96-113
ResultOf(ratio, foreground, background, element_type, text_content, font_size, is_bold) ==
    [foreground_color |-> foreground,
     background_color |-> background,
     contrast_ratio |-> ratio,
     meets_aa_normal |-> MeetsAaNormal(ratio),
     meets_aa_large |-> MeetsAaLarge(ratio),
     meets_aaa_normal |-> MeetsAaaNormal(ratio),
     meets_aaa_large |-> MeetsAaaLarge(ratio),
     element_type |-> element_type,
     text_content |-> text_content,
     font_size |-> font_size,
     is_bold |-> is_bold]

\* lines 85-119, the two colours being parsed
CheckParsed(fg_color, bg_color, foreground, background, element_type, text_content, font_size, is_bold) ==
    IF fg_color = None \/ bg_color = None
    THEN _create_error_result(foreground, background, element_type)
    ELSE IF IsLargeTextRaises(font_size, is_bold)
         THEN Raise("TypeError")
         ELSE ResultOf(_calculate_contrast_ratio(fg_color, bg_color), foreground,
                       background, element_type, text_content, font_size, is_bold)

\* the body of the try: a ContrastResult, or the exception that escapes it
CheckContrastBody(foreground, background, element_type, text_content, font_size, is_bold) ==
    CheckParsed(_parse_color(foreground), _parse_color(background), foreground,
                background, element_type, text_content, font_size, is_bold)

\* except Exception: return self._create_error_result(...)
ErrorResultOnException(body, foreground, background, element_type) ==
    IF IsRaise(body)
    THEN _create_error_result(foreground, background, element_type)
    ELSE body

check_contrast_without_except(foreground, background, element_type, text_content, font_size, is_bold) ==
    CheckContrastBody(foreground, background, element_type, text_content,
                      font_size, is_bold)

check_contrast(foreground, background, element_type, text_content, font_size, is_bold) ==
    ErrorResultOnException(
        CheckContrastBody(foreground, background, element_type, text_content,
                          font_size, is_bold),
        foreground, background, element_type)

----------------------------------------------------------------------------
(* ContrastChecker._adjust_brightness *)

\* the two ladders of factors, in tenths
DarkenFactors == <<8, 6, 4, 2>>

LightenFactors == <<12, 14, 16, 18>>

Factors(darken) == IF darken THEN DarkenFactors ELSE LightenFactors

\* min(1.0, max(0.0, c * factor))
DarkenChannel(c, factor) ==
    Min(ChannelScale, Max(0, RoundDiv(c * factor, 10)))

\* min(1.0, c + (1 - c) * (factor - 1))
LightenChannel(c, factor) ==
    Min(ChannelScale, c + RoundDiv((ChannelScale - c) * (factor - 10), 10))

Adjusted(color, factor, darken) ==
    IF darken
    THEN MkColor(DarkenChannel(color.r, factor), DarkenChannel(color.g, factor),
                 DarkenChannel(color.b, factor))
    ELSE MkColor(LightenChannel(color.r, factor), LightenChannel(color.g, factor),
                 LightenChannel(color.b, factor))

ToHexUpperCase(adjusted) ==
    Str(<<"#">> \o format_02X((adjusted.r * 255) \div ChannelScale)
               \o format_02X((adjusted.g * 255) \div ChannelScale)
               \o format_02X((adjusted.b * 255) \div ChannelScale))

\* f"#{int(adjusted.r*255):02x}{int(adjusted.g*255):02x}{int(adjusted.b*255):02x}"
ToHex(adjusted) ==
    Str(<<"#">> \o format_02x((adjusted.r * 255) \div ChannelScale)
               \o format_02x((adjusted.g * 255) \div ChannelScale)
               \o format_02x((adjusted.b * 255) \div ChannelScale))

\* one candidate of the loop: the factor, the adjusted colour and its ratio
\* against the other colour
Measured(factor, adjusted, other_color) ==
    [factor |-> factor, adjusted |-> adjusted,
     new_ratio |-> _calculate_contrast_ratio(adjusted, other_color)]

\* the loop over the ladder from its i-th factor on: value is what the loop
\* returns, evaluated the candidates it has built and measured, in order,
\* color and other_color the two Colors it was given as they are when it
\* returns
RECURSIVE AdjustLoop(_, _, _, _, _, _)
AdjustStepInPlace(color, target_ratio, other_color, darken, i, log, entry) ==
    IF entry.new_ratio >= target_ratio
    THEN [value |-> ToHex(entry.adjusted), evaluated |-> Append(log, entry),
          color |-> entry.adjusted, other_color |-> other_color]
    ELSE AdjustLoop(entry.adjusted, target_ratio, other_color, darken, i + 1,
                    Append(log, entry))

AdjustStep(color, target_ratio, other_color, darken, i, log, entry) ==
    IF entry.new_ratio >= target_ratio
    THEN [value |-> ToHex(entry.adjusted), evaluated |-> Append(log, entry),
          color |-> color, other_color |-> other_color]
    ELSE AdjustLoop(color, target_ratio, other_color, darken, i + 1, Append(log, entry))

AdjustLoop(color, target_ratio, other_color, darken, i, log) ==
    IF i > Len(Factors(darken))
    THEN [value |-> None, evaluated |-> log, color |-> color, other_color |-> other_color]
    ELSE AdjustStep(color, target_ratio, other_color, darken, i, log,
                    Measured(Factors(darken)[i],
                             Adjusted(color, Factors(darken)[i], darken),
                             other_color))

AdjustRunWithoutSkip(color, target_ratio, other_color, darken) ==
    AdjustLoop(color, target_ratio, other_color, darken, 1, <<>>)

\* one run of _adjust_brightness: its return value and the candidates it tried
AdjustRun(color, target_ratio, other_color, darken) ==
    IF _calculate_contrast_ratio(color, other_color) >= target_ratio
    THEN [value |-> None, evaluated |-> <<>>, color |-> color, other_color |-> other_color]
    ELSE AdjustLoop(color, target_ratio, other_color, darken, 1, <<>>)

_adjust_brightness(color, target_ratio, other_color, darken) ==
    AdjustRun(color, target_ratio, other_color, darken).value

----------------------------------------------------------------------------
(* ContrastChecker.suggest_color_fixes *)

_get_high_contrast_alternatives(result) ==
    <<[type |-> "high_contrast",
       description |-> "Use black text on white background",
       original_color |-> result.foreground_color,
       suggested_color |-> Str(<<"#", "0", "0", "0", "0", "0", "0">>),
       background_color |-> Str(<<"#", "f", "f", "f", "f", "f", "f">>)],
      [type |-> "high_contrast",
       description |-> "Use white text on dark background",
       original_color |-> result.foreground_color,
       suggested_color |-> Str(<<"#", "f", "f", "f", "f", "f", "f">>),
       background_color |-> Str(<<"#", "1", "a", "1", "a", "1", "a">>)]>>

TargetRatio(is_large) == IF is_large THEN AA_LARGE_RATIO ELSE AA_NORMAL_RATIO

\* lines 199-205
DarkenSuggestion(result, darker_fg) ==
    IF darker_fg # None
    THEN <<[type |-> "darken_foreground",
            description |-> <<"Darken text color to ", darker_fg>>,
            original_color |-> result.foreground_color,
            suggested_color |-> darker_fg]>>
    ELSE <<>>

\* lines 209-215
LightenSuggestion(result, lighter_bg) ==
    IF lighter_bg # None
    THEN <<[type |-> "lighten_background",
            description |-> <<"Lighten background color to ", lighter_bg>>,
            original_color |-> result.background_color,
            suggested_color |-> lighter_bg]>>
    ELSE <<>>

SuggestForLightenFirst(result, fg_color, bg_color, target_ratio) ==
    LightenSuggestion(result, _adjust_brightness(bg_color, target_ratio, fg_color, FALSE))
    \o DarkenSuggestion(result, _adjust_brightness(fg_color, target_ratio, bg_color, TRUE))
    \o (IF target_ratio >= AA_NORMAL_RATIO
        THEN _get_high_contrast_alternatives(result)
        ELSE <<>>)

\* lines 197-219
SuggestFor(result, fg_color, bg_color, target_ratio) ==
    DarkenSuggestion(result, _adjust_brightness(fg_color, target_ratio, bg_color, TRUE))
    \o LightenSuggestion(result, _adjust_brightness(bg_color, target_ratio, fg_color, FALSE))
    \o (IF target_ratio >= AA_NORMAL_RATIO
        THEN _get_high_contrast_alternatives(result)
        ELSE <<>>)

SuggestParsedDefaultingToBlack(result, fg_color, bg_color) ==
    IF IsLargeTextRaises(result.font_size, result.is_bold)
    THEN <<>>
    ELSE SuggestFor(result, IF fg_color = None THEN Black ELSE fg_color,
                    IF bg_color = None THEN Black ELSE bg_color,
                    TargetRatio(_is_large_text(result.font_size, result.is_bold)))

\* lines 190-219, the two colours being parsed
SuggestParsed(result, fg_color, bg_color) ==
    IF fg_color = None \/ bg_color = None
    THEN <<>>
    ELSE IF IsLargeTextRaises(result.font_size, result.is_bold)
         THEN <<>>                             \* raised before any append
         ELSE SuggestFor(result, fg_color, bg_color,
                         TargetRatio(_is_large_text(result.font_size, result.is_bold)))

suggest_color_fixes(result) ==
    SuggestParsed(result, _parse_color(result.foreground_color),
                  _parse_color(result.background_color))

----------------------------------------------------------------------------
(* ContrastChecker.check_multiple_contrasts *)

\* dict.get(key, default); a dict is a function on the keys it has
Get(data, key, default) == IF key \in DOMAIN data THEN data[key] ELSE default

\* lines 138-145
CheckRecord(data) ==
    check_contrast(Get(data, "foreground", Str(<<"#", "0", "0", "0", "0", "0", "0">>)),
                   Get(data, "background", Str(<<"#", "f", "f", "f", "f", "f", "f">>)),
                   Get(data, "element_type", Str(<<"t", "e", "x", "t">>)),
                   Get(data, "text_content", None),
                   Get(data, "font_size", None),
                   Get(data, "is_bold", FALSE))

\* the loop from the i-th record on
RECURSIVE MultiLoop(_, _, _)
MultiLoopPrepending(color_data, i, results) ==
    IF i > Len(color_data)
    THEN results
    ELSE MultiLoop(color_data, i + 1, <<CheckRecord(color_data[i])>> \o results)

MultiLoop(color_data, i, results) ==
    IF i > Len(color_data)
    THEN results
    ELSE MultiLoop(color_data, i + 1, Append(results, CheckRecord(color_data[i])))

check_multiple_contrasts(color_data) == MultiLoop(color_data, 1, <<>>)

----------------------------------------------------------------------------
(* ContrastChecker.get_accessibility_issues *)

CreateIssueMeetsAaLarge(result, compliance_level, is_large) ==
    [type |-> "contrast",
     severity |-> IF result.contrast_ratio < 300 THEN "high" ELSE "medium",
     element |-> result.element_type,
     current_ratio |-> result.contrast_ratio,
     required_ratio |-> TargetRatio(is_large),
     meets_aa |-> result.meets_aa_large,
     foreground |-> result.foreground_color,
     background |-> result.background_color,
     text_content |-> result.text_content,
     recommendation |-> <<"Increase contrast to at least ", TargetRatio(is_large),
                          ":1 for ", compliance_level>>,
     is_large_text |-> is_large]

\* the issue dictionary; the recommendation keeps the parts of the f-string
_create_issue(result, compliance_level, is_large) ==
    [type |-> "contrast",
     severity |-> IF result.contrast_ratio < 300 THEN "high" ELSE "medium",
     element |-> result.element_type,
     current_ratio |-> result.contrast_ratio,
     required_ratio |-> TargetRatio(is_large),
     meets_aa |-> IF is_large THEN result.meets_aa_large ELSE result.meets_aa_normal,
     foreground |-> result.foreground_color,
     background |-> result.background_color,
     text_content |-> result.text_content,
     recommendation |-> <<"Increase contrast to at least ", TargetRatio(is_large),
                          ":1 for ", compliance_level>>,
     is_large_text |-> is_large]

IssuesOfNormalThreshold(result, is_large) ==
    IF ~result.meets_aa_normal
    THEN <<_create_issue(result, IF is_large THEN "AA Large Text" ELSE "AA Normal Text",
                         is_large)>>
    ELSE <<>>

\* lines 167-170: what one result appends to the list
IssuesOf(result, is_large) ==
    IF is_large /\ ~result.meets_aa_large
    THEN <<_create_issue(result, "AA Large Text", is_large)>>
    ELSE IF ~is_large /\ ~result.meets_aa_normal
         THEN <<_create_issue(result, "AA Normal Text", is_large)>>
         ELSE <<>>

\* the loop from the i-th result on; nothing catches the TypeError of
\* _is_large_text
RECURSIVE IssuesLoop(_, _, _)
IssuesLoop(results, i, issues) ==
    IF i > Len(results)
    THEN issues
    ELSE IF IsLargeTextRaises(results[i].font_size, results[i].is_bold)
         THEN Raise("TypeError")
         ELSE IssuesLoop(results, i + 1,
                         issues \o IssuesOf(results[i],
                                            _is_large_text(results[i].font_size,
                                                           results[i].is_bold)))

get_accessibility_issues(results) == IssuesLoop(results, 1, <<>>)

----------------------------------------------------------------------------
(* Inputs of the model *)

\* 8-bit grey levels the colour inputs are built from, in the order in which
\* a larger bound adds them
GreyLevels == <<0, 255, 24, 118, 119, 26>>

NumGreys == 4

HexString(r, g, b) ==
    Str(<<"#">> \o format_02x(r) \o format_02x(g) \o format_02x(b))

GreyInputs == {HexString(GreyLevels[i], GreyLevels[i], GreyLevels[i]) : i \in 1..NumGreys}

\* an upper-case hex colour, an rgb() form, an rgb() form with a channel
\* above 255, one with a channel above 255 * 255 (which Color() leaves above
\* 1.0), a hex colour with whitespace around it, a '#' string that is
\* not hex, a string that is no colour at all, and a value that is not a
\* string
OtherInputs ==
    {Str(<<"#", "0", "0", "0", "0", "F", "F">>),
     Str(<<"r", "g", "b", "(", "2", "5", "5", ",", " ", "0", ",", " ", "0", ")">>),
     Str(<<"r", "g", "b", "(", "3", "0", "0", ",", " ", "0", ",", " ", "0", ")">>),
     Str(<<"r", "g", "b", "(", "9", "9", "9", "9", "9", ",", " ", "0", ",", " ", "0", ")">>),
     Str(<<" ", "#", "f", "f", "f", "f", "f", "f", "\n">>),
     Str(<<"#", "z", "z", "z", "z", "z", "z">>),
     Str(<<"n", "o", "c", "o", "l", "o", "r">>),
     None}

ColorInputs == GreyInputs \cup OtherInputs

\* no size, 12pt, the sizes at and just below the two large-text thresholds,
\* and a size given as the string "12pt"
FontSizeInputs ==
    {None, Float(120), Float(139), Float(140), Float(179), Float(180),
     Str(<<"1", "2", "p", "t">>)}

TextInputs == {None, Str(<<"T", "i", "t", "l", "e">>)}

ElementTypes == {Str(<<"t", "e", "x", "t">>)}

\* results of other checks that a caller passes to get_accessibility_issues
\* together with the one at hand: #777777 on white as 12pt text, which
\* fails AA, and as 18pt text, which passes
FailingResult ==
    check_contrast(Str(<<"#", "7", "7", "7", "7", "7", "7">>),
                   Str(<<"#", "f", "f", "f", "f", "f", "f">>),
                   Str(<<"t", "e", "x", "t">>), None, Float(120), FALSE)

PassingResult ==
    check_contrast(Str(<<"#", "7", "7", "7", "7", "7", "7">>),
                   Str(<<"#", "f", "f", "f", "f", "f", "f">>),
                   Str(<<"t", "e", "x", "t">>), None, Float(180), FALSE)

ResultLists(r) == {<<r>>, <<r, FailingResult>>, <<FailingResult, r>>, <<PassingResult, r>>}

----------------------------------------------------------------------------
(* State *)

VARIABLES
    op,             \* the operation that ran last
    call,           \* the arguments of the last check_contrast call
    parsed,         \* the two colours that call obtained from _parse_color
    result,         \* the ContrastResult the caller holds
    suggestions,    \* the list the last suggest_color_fixes call returned
    searches,       \* the candidates its two brightness searches evaluated
    results,        \* the list last passed to get_accessibility_issues
    issues,         \* the list that call returned
    color_data,     \* the records passed to check_multiple_contrasts
    roundtrip,      \* a hex string, the Color parsed from it and its hex form
    self,           \* the attributes of the ContrastChecker instance
    pc,             \* for each thread, where it is in the method it runs
    invocation,     \* for each thread, that method and its arguments
    locals,         \* for each frame, the local variables of the method
    ret,            \* for each thread, the value its call returned
    interleaved     \* for each thread, whether another thread took a step
                    \* while its call was running

vars ==
    <<op, call, parsed, result, suggestions, searches, results, issues,
      color_data, roundtrip, self, pc, invocation, locals, ret, interleaved>>

\* what a single evaluation works on, the hex round trip, and the threads
evalVars == <<call, parsed, result, suggestions, searches>>

threadVars == <<self, pc, invocation, locals, ret, interleaved>>

\* number of threads that share the checker
NumThreads == 2

Threads == 1..NumThreads

\* __init__ sets the logger and nothing else
NewChecker == [logger |-> "logger"]

NoThreadRuns ==
    /\ self = NewChecker
    /\ pc = [t \in Threads |-> "idle"]
    /\ invocation = [t \in Threads |-> None]
    /\ locals = [f \in Threads |-> None]
    /\ ret = [t \in Threads |-> None]
    /\ interleaved = [t \in Threads |-> FALSE]

NoRun == [value |-> None, evaluated |-> <<>>, color |-> None, other_color |-> None]

\* The checker keeps nothing between calls (its only attribute is the
\* logger), so a behaviour follows one evaluation: the arguments a caller
\* has at hand, the check_contrast call on them, and the calls made on the
\* ContrastResult it returned.
Init ==
    /\ op = "init"
    /\ call \in [foreground : ColorInputs, background : ColorInputs,
                 element_type : ElementTypes, text_content : TextInputs,
                 font_size : FontSizeInputs, is_bold : BOOLEAN]
    /\ parsed = None
    /\ result = None
    /\ suggestions = <<>>
    /\ searches = [darken |-> NoRun, lighten |-> NoRun]
    /\ results = <<>>
    /\ issues = <<>>
    /\ color_data = <<>>
    /\ roundtrip = None
    /\ NoThreadRuns

CheckContrast ==
    /\ op' = "check_contrast"
    /\ parsed' = [fg_color |-> _parse_color(call.foreground),
                  bg_color |-> _parse_color(call.background)]
    /\ result' = check_contrast(call.foreground, call.background, call.element_type,
                                call.text_content, call.font_size, call.is_bold)
    /\ suggestions' = <<>>
    /\ searches' = [darken |-> NoRun, lighten |-> NoRun]
    /\ results' = <<>>
    /\ issues' = <<>>
    /\ UNCHANGED <<call, color_data, roundtrip, threadVars>>

\* the searches suggest_color_fixes runs on a result; none when it returns
\* or raises before it reaches them
SearchesFor(fg_color, bg_color, target_ratio) ==
    [darken |-> AdjustRun(fg_color, target_ratio, bg_color, TRUE),
     lighten |-> AdjustRun(bg_color, target_ratio, fg_color, FALSE)]

SearchesParsed(r, fg_color, bg_color) ==
    IF fg_color = None \/ bg_color = None \/ IsLargeTextRaises(r.font_size, r.is_bold)
    THEN [darken |-> NoRun, lighten |-> NoRun]
    ELSE SearchesFor(fg_color, bg_color,
                     TargetRatio(_is_large_text(r.font_size, r.is_bold)))

SearchesOf(r) ==
    SearchesParsed(r, _parse_color(r.foreground_color), _parse_color(r.background_color))

SuggestColorFixes ==
    /\ op # "init"
    /\ op' = "suggest_color_fixes"
    /\ suggestions' = suggest_color_fixes(result)
    /\ searches' = SearchesOf(result)
    /\ UNCHANGED <<call, parsed, result, results, issues>>
    /\ UNCHANGED <<color_data, roundtrip, threadVars>>

GetAccessibilityIssues ==
    /\ op # "init"
    /\ op' = "get_accessibility_issues"
    /\ \E rs \in ResultLists(result) :
           /\ results' = rs
           /\ issues' = get_accessibility_issues(rs)
    /\ UNCHANGED <<call, parsed, result, suggestions, searches>>
    /\ UNCHANGED <<color_data, roundtrip, threadVars>>

Next ==
    \/ CheckContrast
    \/ SuggestColorFixes
    \/ GetAccessibilityIssues

Spec == Init /\ [][Next]_vars

----------------------------------------------------------------------------
(* A batch: check_multiple_contrasts on a list of records, then
   get_accessibility_issues on the list it returned *)

Rec2(k1, v1, k2, v2) == [k \in {k1, k2} |-> IF k = k1 THEN v1 ELSE v2]

Rec3(k1, v1, k2, v2, k3, v3) ==
    [k \in {k1, k2, k3} |-> IF k = k1 THEN v1 ELSE IF k = k2 THEN v2 ELSE v3]

\* records of the document parsers: one with every key, and records that
\* omit keys, among them the record with no key at all
RecordInputs ==
    {[k \in {} |-> None],
     [foreground |-> Str(<<"#", "7", "6", "7", "6", "7", "6">>),
      background |-> Str(<<"#", "F", "F", "F", "F", "F", "F">>),
      element_type |-> Str(<<"t", "e", "x", "t">>),
      text_content |-> Str(<<"T", "i", "t", "l", "e">>),
      font_size |-> Float(120),
      is_bold |-> FALSE],
     Rec2("foreground", Str(<<"#", "0", "0", "0", "0", "0", "0">>),
          "background", Str(<<"#", "7", "7", "7", "7", "7", "7">>)),
     Rec3("background", Str(<<"#", "7", "7", "7", "7", "7", "7">>),
          "font_size", Float(180), "is_bold", TRUE),
     [foreground |-> Str(<<"#", "7", "7", "7", "7", "7", "7">>)],
     Rec3("foreground", Str(<<"#", "z", "z", "z", "z", "z", "z">>),
          "element_type", Str(<<"h", "e", "a", "d", "i", "n", "g">>),
          "text_content", Str(<<"T", "i", "t", "l", "e">>)),
     Rec2("foreground", Str(<<"#", "f", "f", "f", "f", "f", "f">>),
          "font_size", Float(180))}

\* the longest list of records
MaxRecords == 2

RecordLists == UNION {[1..n -> RecordInputs] : n \in 0..MaxRecords}

InitBatch ==
    /\ op = "init"
    /\ color_data \in RecordLists
    /\ call = None
    /\ parsed = None
    /\ result = None
    /\ suggestions = <<>>
    /\ searches = [darken |-> NoRun, lighten |-> NoRun]
    /\ results = <<>>
    /\ issues = <<>>
    /\ roundtrip = None
    /\ NoThreadRuns

CheckMultipleContrasts ==
    /\ op' = "check_multiple_contrasts"
    /\ results' = check_multiple_contrasts(color_data)
    /\ issues' = <<>>
    /\ UNCHANGED <<color_data, evalVars, roundtrip, threadVars>>

GetAccessibilityIssuesOfBatch ==
    /\ op # "init"
    /\ op' = "get_accessibility_issues"
    /\ issues' = get_accessibility_issues(results)
    /\ UNCHANGED <<results, color_data, evalVars, roundtrip, threadVars>>

NextBatch ==
    \/ CheckMultipleContrasts
    \/ GetAccessibilityIssuesOfBatch

SpecBatch == InitBatch /\ [][NextBatch]_vars

----------------------------------------------------------------------------
(* The hex round trip: _parse_color on a #RRGGBB string and the hex
   serialisation of _adjust_brightness on the Color it returned *)

\* the three channels that go with a red byte r, so that every byte value
\* occurs in every channel
GreenOf(r) == (r + 85) % 256

BlueOf(r) == 255 - r

\* #RRGGBB in lower case, in upper case, and with only the red channel in
\* upper case
HexForms(r) ==
    {Str(<<"#">> \o format_02x(r) \o format_02x(GreenOf(r)) \o format_02x(BlueOf(r))),
     Str(<<"#">> \o format_02X(r) \o format_02X(GreenOf(r)) \o format_02X(BlueOf(r))),
     Str(<<"#">> \o format_02X(r) \o format_02x(GreenOf(r)) \o format_02x(BlueOf(r)))}

HexInputs == UNION {HexForms(r) : r \in 0..255}

InitHex ==
    /\ op = "init"
    /\ roundtrip \in {[input |-> h, color |-> None, output |-> None] : h \in HexInputs}
    /\ call = None
    /\ parsed = None
    /\ result = None
    /\ suggestions = <<>>
    /\ searches = [darken |-> NoRun, lighten |-> NoRun]
    /\ results = <<>>
    /\ issues = <<>>
    /\ color_data = <<>>
    /\ NoThreadRuns

ParseHex ==
    /\ op = "init"
    /\ op' = "_parse_color"
    /\ roundtrip' = [roundtrip EXCEPT !.color = _parse_color(roundtrip.input)]
    /\ UNCHANGED <<evalVars, results, issues, color_data, threadVars>>

SerialiseHex ==
    /\ op = "_parse_color"
    /\ roundtrip.color # None
    /\ op' = "serialise"
    /\ roundtrip' = [roundtrip EXCEPT !.output = ToHex(roundtrip.color)]
    /\ UNCHANGED <<evalVars, results, issues, color_data, threadVars>>

NextHex ==
    \/ ParseHex
    \/ SerialiseHex

SpecHex == InitHex /\ [][NextHex]_vars

----------------------------------------------------------------------------
(* Threads that call the methods of one shared ContrastChecker. A step of a
   thread is one statement, or one run of statements, of the method it is
   in; the steps of different threads interleave in any order. *)

\* the local variables of a call live in the frame of that call
FrameShared(t) == 1

FrameOf(t) == t

\* the locals of the three methods before their first assignment
NewFrame ==
    [fg_color |-> None, bg_color |-> None, suggestions |-> <<>>,
     target_ratio |-> 0, i |-> 1, issues |-> <<>>]

\* the calls the threads make
PassingCall ==
    [foreground |-> Str(<<"#", "7", "6", "7", "6", "7", "6">>),
     background |-> Str(<<"#", "f", "f", "f", "f", "f", "f">>),
     element_type |-> Str(<<"t", "e", "x", "t">>),
     text_content |-> None, font_size |-> None, is_bold |-> FALSE]

FailingCall ==
    [foreground |-> Str(<<"#", "1", "8", "1", "8", "1", "8">>),
     background |-> Str(<<"#", "0", "0", "0", "0", "0", "0">>),
     element_type |-> Str(<<"t", "e", "x", "t">>),
     text_content |-> None, font_size |-> Float(180), is_bold |-> FALSE]

ResultOfCall(c) ==
    check_contrast(c.foreground, c.background, c.element_type, c.text_content,
                   c.font_size, c.is_bold)

ThreadCalls ==
    {[method |-> "check_contrast", args |-> PassingCall],
     [method |-> "check_contrast", args |-> FailingCall],
     [method |-> "suggest_color_fixes", args |-> [result |-> ResultOfCall(FailingCall)]],
     [method |-> "get_accessibility_issues",
      args |-> [results |-> <<ResultOfCall(FailingCall), ResultOfCall(PassingCall)>>]]}

FirstLabel(method) ==
    CASE method = "check_contrast" -> "cc_parse_fg"
      [] method = "suggest_color_fixes" -> "sf_parse_fg"
      [] method = "get_accessibility_issues" -> "gi_loop"

Running(t) == pc[t] \notin {"idle", "done"}

\* thread t takes a step: it goes to label, its frame becomes frame and
\* the value it returned becomes value
Step(t, label, frame, value) ==
    /\ pc' = [pc EXCEPT ![t] = label]
    /\ locals' = [locals EXCEPT ![FrameOf(t)] = frame]
    /\ ret' = [ret EXCEPT ![t] = value]
    /\ interleaved' = [u \in Threads |->
                          IF u = t THEN interleaved[u] ELSE interleaved[u] \/ Running(u)]
    /\ UNCHANGED <<self, invocation>>
    /\ UNCHANGED <<op, evalVars, results, issues, color_data, roundtrip>>

Frame(t) == locals[FrameOf(t)]

Args(t) == invocation[t].args

InitThreads ==
    /\ op = "init"
    /\ call = None
    /\ parsed = None
    /\ result = None
    /\ suggestions = <<>>
    /\ searches = [darken |-> NoRun, lighten |-> NoRun]
    /\ results = <<>>
    /\ issues = <<>>
    /\ color_data = <<>>
    /\ roundtrip = None
    /\ self = NewChecker
    /\ pc = [t \in Threads |-> "idle"]
    /\ invocation = [t \in Threads |-> None]
    /\ locals = [f \in Threads |-> NewFrame]
    /\ ret = [t \in Threads |-> None]
    /\ interleaved = [t \in Threads |-> FALSE]

\* a thread calls a method: a new frame
CallMethod ==
    \E t \in Threads, c \in ThreadCalls :
        /\ pc[t] = "idle"
        /\ pc' = [pc EXCEPT ![t] = FirstLabel(c.method)]
        /\ invocation' = [invocation EXCEPT ![t] = c]
        /\ locals' = [locals EXCEPT ![FrameOf(t)] = NewFrame]
        /\ ret' = [ret EXCEPT ![t] = None]
        /\ interleaved' = [u \in Threads |->
                              IF u = t THEN FALSE ELSE interleaved[u] \/ Running(u)]
        /\ UNCHANGED self
        /\ UNCHANGED <<op, evalVars, results, issues, color_data, roundtrip>>

\* the caller takes the returned value
ReturnToCaller ==
    \E t \in Threads :
        /\ pc[t] = "done"
        /\ pc' = [pc EXCEPT ![t] = "idle"]
        /\ invocation' = [invocation EXCEPT ![t] = None]
        /\ ret' = [ret EXCEPT ![t] = None]
        /\ interleaved' = [interleaved EXCEPT ![t] = FALSE]
        /\ UNCHANGED <<self, locals>>
        /\ UNCHANGED <<op, evalVars, results, issues, color_data, roundtrip>>

\* check_contrast, line 82
CcParseFg ==
    \E t \in Threads :
        /\ pc[t] = "cc_parse_fg"
        /\ Step(t, "cc_parse_bg",
                [Frame(t) EXCEPT !.fg_color = _parse_color(Args(t).foreground)], None)

\* check_contrast, line 83
CcParseBg ==
    \E t \in Threads :
        /\ pc[t] = "cc_parse_bg"
        /\ Step(t, "cc_evaluate",
                [Frame(t) EXCEPT !.bg_color = _parse_color(Args(t).background)], None)

\* check_contrast, lines 85-123
CcEvaluate ==
    \E t \in Threads :
        /\ pc[t] = "cc_evaluate"
        /\ Step(t, "done", Frame(t),
                ErrorResultOnException(
                    CheckParsed(Frame(t).fg_color, Frame(t).bg_color,
                                Args(t).foreground, Args(t).background,
                                Args(t).element_type, Args(t).text_content,
                                Args(t).font_size, Args(t).is_bold),
                    Args(t).foreground, Args(t).background, Args(t).element_type))

\* suggest_color_fixes, line 187
SfParseFg ==
    \E t \in Threads :
        /\ pc[t] = "sf_parse_fg"
        /\ Step(t, "sf_parse_bg",
                [Frame(t) EXCEPT !.fg_color = _parse_color(Args(t).result.foreground_color)],
                None)

\* suggest_color_fixes, line 188
SfParseBg ==
    \E t \in Threads :
        /\ pc[t] = "sf_parse_bg"
        /\ Step(t, "sf_darken",
                [Frame(t) EXCEPT !.bg_color = _parse_color(Args(t).result.background_color)],
                None)

\* the frame after lines 194-205
DarkenedFrame(frame, r, target_ratio) ==
    [frame EXCEPT
        !.target_ratio = target_ratio,
        !.suggestions = frame.suggestions
            \o DarkenSuggestion(r,
                   _adjust_brightness(frame.fg_color, target_ratio, frame.bg_color, TRUE))]

\* suggest_color_fixes, lines 190-205; an unparsed colour returns the empty
\* list, and so does the handler of line 221
SfDarken ==
    \E t \in Threads :
        /\ pc[t] = "sf_darken"
        /\ IF \/ Frame(t).fg_color = None
              \/ Frame(t).bg_color = None
              \/ IsLargeTextRaises(Args(t).result.font_size, Args(t).result.is_bold)
           THEN Step(t, "done", Frame(t), Frame(t).suggestions)
           ELSE Step(t, "sf_lighten",
                     DarkenedFrame(Frame(t), Args(t).result,
                                   TargetRatio(_is_large_text(Args(t).result.font_size,
                                                              Args(t).result.is_bold))),
                     None)

\* suggest_color_fixes, lines 208-215
SfLighten ==
    \E t \in Threads :
        /\ pc[t] = "sf_lighten"
        /\ Step(t, "sf_fallbacks",
                [Frame(t) EXCEPT !.suggestions = Frame(t).suggestions
                    \o LightenSuggestion(Args(t).result,
                           _adjust_brightness(Frame(t).bg_color, Frame(t).target_ratio,
                                              Frame(t).fg_color, FALSE))],
                None)

\* the list after lines 218-219
WithFallbacks(frame, r) ==
    frame.suggestions
    \o (IF frame.target_ratio >= AA_NORMAL_RATIO
        THEN _get_high_contrast_alternatives(r)
        ELSE <<>>)

\* suggest_color_fixes, lines 218-224
SfFallbacks ==
    \E t \in Threads :
        /\ pc[t] = "sf_fallbacks"
        /\ Step(t, "done",
                [Frame(t) EXCEPT !.suggestions = WithFallbacks(Frame(t), Args(t).result)],
                WithFallbacks(Frame(t), Args(t).result))

\* the frame after one pass of the loop of lines 162-170
LoopedFrame(frame, r) ==
    [frame EXCEPT
        !.i = frame.i + 1,
        !.issues = frame.issues
            \o IssuesOf(r, _is_large_text(r.font_size, r.is_bold))]

\* get_accessibility_issues, lines 162-172: one pass of the loop, or the
\* return after the last result
GiLoop ==
    \E t \in Threads :
        /\ pc[t] = "gi_loop"
        /\ IF Frame(t).i > Len(Args(t).results)
           THEN Step(t, "done", Frame(t), Frame(t).issues)
           ELSE IF IsLargeTextRaises(Args(t).results[Frame(t).i].font_size,
                                     Args(t).results[Frame(t).i].is_bold)
                THEN Step(t, "done", Frame(t), Raise("TypeError"))
                ELSE Step(t, "gi_loop",
                          LoopedFrame(Frame(t), Args(t).results[Frame(t).i]), None)

NextThreads ==
    \/ CallMethod
    \/ ReturnToCaller
    \/ CcParseFg
    \/ CcParseBg
    \/ CcEvaluate
    \/ SfParseFg
    \/ SfParseBg
    \/ SfDarken
    \/ SfLighten
    \/ SfFallbacks
    \/ GiLoop

SpecThreads == InitThreads /\ [][NextThreads]_vars

----------------------------------------------------------------------------
(* Properties *)

Checked == op # "init"

BothParsed == Checked /\ parsed.fg_color # None /\ parsed.bg_color # None

ContrastResultFields ==
    {"foreground_color", "background_color", "contrast_ratio", "meets_aa_normal",
     "meets_aa_large", "meets_aaa_normal", "meets_aaa_large", "element_type",
     "text_content", "font_size", "is_bold"}

----------------------------------------------------------------------------
\* C1: the contrast ratio does not depend on which of the two colours is the
\* foreground: _calculate_contrast_ratio gives the same value for (A, B) and
\* (B, A), and check_contrast called with the two colour arguments exchanged
\* returns the same contrast_ratio.
RatioSymmetric ==
    Checked =>
        /\ result.contrast_ratio =
               check_contrast(call.background, call.foreground, call.element_type,
                              call.text_content, call.font_size,
                              call.is_bold).contrast_ratio
        /\ BothParsed =>
               _calculate_contrast_ratio(parsed.fg_color, parsed.bg_color) =
                   _calculate_contrast_ratio(parsed.bg_color, parsed.fg_color)

\* two different colours were compared, the foreground being the lighter one
RatioSymmetricWitness ==
    /\ op = "check_contrast"
    /\ BothParsed
    /\ _get_relative_luminance(parsed.fg_color) > _get_relative_luminance(parsed.bg_color)
    /\ result.contrast_ratio > 100

----------------------------------------------------------------------------
\* C2: every ContrastResult returned by check_contrast has a contrast_ratio
\* of at least 1.0, whatever the inputs.
RatioAtLeastOne == Checked => result.contrast_ratio >= 100

----------------------------------------------------------------------------
\* C3: _parse_color returns a Color for every input string, and returns pure
\* black whenever the string is not a valid hex colour, not a matching
\* rgb(r, g, b) form and not a known colour name.
NoColorForm(color_str) ==
    /\ IsRaise(ColorFromString(strip(color_str.chars)))
    /\ ~RgbSearch(strip(color_str.chars)).matched

ParseColorTotalFor(color_str, color) ==
    color_str.type = "str" =>
        /\ color # None
        /\ NoColorForm(color_str) => color = MkColor(0, 0, 0)

ParseColorTotal ==
    Checked =>
        /\ ParseColorTotalFor(call.foreground, parsed.fg_color)
        /\ ParseColorTotalFor(call.background, parsed.bg_color)

----------------------------------------------------------------------------
\* C4: check_contrast never raises: whatever the arguments, among them
\* colours that are not strings and font sizes that are not numbers, what
\* it hands back is a ContrastResult.
CheckContrastNeverRaises ==
    Checked => ~IsRaise(result) /\ DOMAIN result = ContrastResultFields

\* both colours parsed and the classification of the font size raised
CheckContrastNeverRaisesWitness ==
    /\ op = "check_contrast"
    /\ BothParsed
    /\ call.font_size.type = "str"
    /\ DOMAIN result = ContrastResultFields

----------------------------------------------------------------------------
\* C5: on every path of check_contrast the text_content, font_size and
\* is_bold of the returned ContrastResult are the values the caller passed.
MetadataPreserved ==
    Checked =>
        /\ result.text_content = call.text_content
        /\ result.font_size = call.font_size
        /\ result.is_bold = call.is_bold

----------------------------------------------------------------------------
\* C6: in every result of check_contrast, error results included,
\* meets_aaa_normal implies meets_aa_normal and meets_aaa_large implies
\* meets_aa_large.
AaaImpliesAa ==
    Checked =>
        /\ result.meets_aaa_normal => result.meets_aa_normal
        /\ result.meets_aaa_large => result.meets_aa_large

\* a result that meets AAA for large text only
AaaImpliesAaWitness ==
    /\ op = "check_contrast"
    /\ result.meets_aaa_large
    /\ ~result.meets_aaa_normal

----------------------------------------------------------------------------
(* suggest_color_fixes *)

Suggested == op = "suggest_color_fixes"

\* the target ratio suggest_color_fixes derives from the result it is given
ResultTarget ==
    IF result.font_size # None
       /\ (IF result.is_bold
           THEN result.font_size.tenths >= 140
           ELSE result.font_size.tenths >= 180)
    THEN 300
    ELSE 450

OfType(type) == {i \in 1..Len(suggestions) : suggestions[i].type = type}

IsFallback(s, text, back) ==
    /\ s.type = "high_contrast"
    /\ s.suggested_color = Str(text)
    /\ s.background_color = Str(back)

EndsWithFallbacks ==
    /\ Len(suggestions) >= 2
    /\ IsFallback(suggestions[Len(suggestions) - 1],
                  <<"#", "0", "0", "0", "0", "0", "0">>,
                  <<"#", "f", "f", "f", "f", "f", "f">>)
    /\ IsFallback(suggestions[Len(suggestions)],
                  <<"#", "f", "f", "f", "f", "f", "f">>,
                  <<"#", "1", "a", "1", "a", "1", "a">>)

----------------------------------------------------------------------------
\* C7: the list suggest_color_fixes returns always ends with the two fixed
\* high-contrast fallbacks, #000000 on #ffffff and #ffffff on #1a1a1a, for
\* large and for normal text and whatever the two searches found.
FallbacksAlwaysAppended == Suggested => EndsWithFallbacks

----------------------------------------------------------------------------
\* C8: every darken_foreground or lighten_background suggestion is safe: its
\* suggested_color, evaluated against the unchanged partner colour of the
\* pair, reaches the target ratio it was generated for.
SuggestionRatio(s) ==
    _calculate_contrast_ratio(
        _parse_color(s.suggested_color),
        IF s.type = "darken_foreground" THEN parsed.bg_color ELSE parsed.fg_color)

SuggestionsMeetTarget ==
    Suggested =>
        \A i \in OfType("darken_foreground") \cup OfType("lighten_background") :
            SuggestionRatio(suggestions[i]) >= ResultTarget

----------------------------------------------------------------------------
\* What both searches have in common (C9, C10): the candidates are measured
\* against the unchanged partner colour, every candidate before the last one
\* evaluated missed the target, a returned colour is the serialisation of the
\* last candidate and that candidate reached the target, and a search that
\* returns nothing either evaluated no candidate or evaluated all four and
\* saw each of them miss.
ByteOf(c) == (c * 255) \div ChannelScale

HexOf(color) ==
    <<"#">> \o format_02x(ByteOf(color.r)) \o format_02x(ByteOf(color.g))
           \o format_02x(ByteOf(color.b))

FirstSuccessRule(run, partner) ==
    LET n == Len(run.evaluated)
    IN  /\ n <= 4
        /\ \A i \in 1..n :
               run.evaluated[i].new_ratio =
                   _calculate_contrast_ratio(run.evaluated[i].adjusted, partner)
        /\ \A i \in 1..(n - 1) : run.evaluated[i].new_ratio < ResultTarget
        /\ run.value # None =>
               /\ n >= 1
               /\ run.evaluated[n].new_ratio >= ResultTarget
               /\ run.value = Str(HexOf(run.evaluated[n].adjusted))
        /\ run.value = None =>
               \/ n = 0
               \/ n = 4 /\ run.evaluated[4].new_ratio < ResultTarget

\* the suggestion list carries exactly what the search returned
Emitted(type, run) ==
    /\ Cardinality(OfType(type)) = (IF run.value = None THEN 0 ELSE 1)
    /\ \A i \in OfType(type) : suggestions[i].suggested_color = run.value

\* |10 * new - old * factor| is within the rounding of one channel unit
ScaledBy(new, old, factor) == (10 * new) - (old * factor) \in -5..5

\* new = old + (1 - old) * (factor - 1), within the same rounding
MovedToWhiteBy(new, old, factor) ==
    (10 * (new - old)) - ((ChannelScale - old) * (factor - 10)) \in -5..5

----------------------------------------------------------------------------
\* C9: the darken-foreground search scales every foreground channel by 0.8,
\* 0.6, 0.4, 0.2 in that order, returns the candidate of the first factor
\* whose ratio against the unchanged background reaches the target,
\* evaluates no factor after that, emits no suggestion when all four miss,
\* and so evaluates at most four candidates.
DarkenSearchOrdered ==
    Suggested =>
        /\ FirstSuccessRule(searches.darken, parsed.bg_color)
        /\ Emitted("darken_foreground", searches.darken)
        /\ \A i \in 1..Len(searches.darken.evaluated) :
               LET e == searches.darken.evaluated[i]
               IN  /\ e.factor = 10 - (2 * i)
                   /\ ScaledBy(e.adjusted.r, parsed.fg_color.r, e.factor)
                   /\ ScaledBy(e.adjusted.g, parsed.fg_color.g, e.factor)
                   /\ ScaledBy(e.adjusted.b, parsed.fg_color.b, e.factor)

----------------------------------------------------------------------------
\* C10: the lighten-background search tries the factors 1.2, 1.4, 1.6, 1.8
\* in that order, each candidate channel being old + (1 - old) * (factor - 1),
\* returns the candidate of the first factor whose ratio against the
\* unchanged foreground reaches the target, and emits nothing when none of
\* the four does.
LightenSearchOrdered ==
    Suggested =>
        /\ FirstSuccessRule(searches.lighten, parsed.fg_color)
        /\ Emitted("lighten_background", searches.lighten)
        /\ \A i \in 1..Len(searches.lighten.evaluated) :
               LET e == searches.lighten.evaluated[i]
               IN  /\ e.factor = 10 + (2 * i)
                   /\ MovedToWhiteBy(e.adjusted.r, parsed.bg_color.r, e.factor)
                   /\ MovedToWhiteBy(e.adjusted.g, parsed.bg_color.g, e.factor)
                   /\ MovedToWhiteBy(e.adjusted.b, parsed.bg_color.b, e.factor)

----------------------------------------------------------------------------
\* the ratio of the pair as suggest_color_fixes sees it
PairRatio == _calculate_contrast_ratio(parsed.fg_color, parsed.bg_color)

----------------------------------------------------------------------------
\* C11: when the original pair already meets the target ratio of its
\* text-size class, suggest_color_fixes emits neither a darken_foreground
\* nor a lighten_background suggestion, and neither search evaluates a
\* candidate.
SearchesSkippedWhenTargetMet ==
    (Suggested /\ BothParsed /\ PairRatio >= ResultTarget) =>
        /\ OfType("darken_foreground") = {}
        /\ OfType("lighten_background") = {}
        /\ searches.darken.evaluated = <<>>
        /\ searches.lighten.evaluated = <<>>

\* two different colours that meet the target: only the fallbacks come back
SearchesSkippedWhenTargetMetWitness ==
    /\ Suggested
    /\ BothParsed
    /\ PairRatio >= ResultTarget
    /\ PairRatio < 2100
    /\ parsed.fg_color # Black
    /\ Len(suggestions) = 2

----------------------------------------------------------------------------
\* C12: the list suggest_color_fixes returns is ordered: at most one
\* darken_foreground record, then at most one lighten_background record,
\* then the high_contrast fallbacks; every record has one of these three
\* types and carries description, original_color and suggested_color, the
\* original_color being the result's foreground string for
\* darken_foreground and its background string for lighten_background.
SuggestionTypes == <<"darken_foreground", "lighten_background", "high_contrast">>

TypeRank(type) == CHOOSE k \in 1..3 : SuggestionTypes[k] = type

SuggestionsOrdered ==
    Suggested =>
        /\ Cardinality(OfType("darken_foreground")) <= 1
        /\ Cardinality(OfType("lighten_background")) <= 1
        /\ \A i \in 1..Len(suggestions) :
               /\ \E k \in 1..3 : SuggestionTypes[k] = suggestions[i].type
               /\ {"description", "original_color", "suggested_color"}
                      \subseteq DOMAIN suggestions[i]
               /\ suggestions[i].type = "darken_foreground" =>
                      suggestions[i].original_color = result.foreground_color
               /\ suggestions[i].type = "lighten_background" =>
                      suggestions[i].original_color = result.background_color
        /\ \A i, j \in 1..Len(suggestions) :
               i < j => TypeRank(suggestions[i].type) <= TypeRank(suggestions[j].type)

\* both searches found a colour and the fallbacks follow them
SuggestionsOrderedWitness ==
    /\ Suggested
    /\ result.foreground_color # result.background_color
    /\ Len(suggestions) = 4
    /\ suggestions[1].type = "darken_foreground"
    /\ suggestions[2].type = "lighten_background"

----------------------------------------------------------------------------
(* get_accessibility_issues *)

Issued == op = "get_accessibility_issues"

\* large text as the specification defines it
LargeText(font_size, is_bold) ==
    /\ font_size # None
    /\ \/ is_bold /\ font_size.tenths >= 140
       \/ ~is_bold /\ font_size.tenths >= 180

FailsOwnClass(r) ==
    IF LargeText(r.font_size, r.is_bold) THEN ~r.meets_aa_large ELSE ~r.meets_aa_normal

Failing == {i \in 1..Len(results) : FailsOwnClass(results[i])}

\* the position among the failing results of the i-th result
RankOf(i) == Cardinality({j \in Failing : j <= i})

IssueIsFor(issue, r) ==
    /\ issue.foreground = r.foreground_color
    /\ issue.background = r.background_color
    /\ issue.current_ratio = r.contrast_ratio
    /\ issue.element = r.element_type
    /\ issue.text_content = r.text_content

----------------------------------------------------------------------------
\* C13: get_accessibility_issues emits an issue for a result exactly when
\* the result fails the AA threshold of its own text-size class
\* (meets_aa_large for large text, meets_aa_normal otherwise), at most one
\* issue per result, and the issues are in the order of the results.
IssuesExactlyForFailures ==
    Issued =>
        /\ Len(issues) = Cardinality(Failing)
        /\ \A i \in Failing : IssueIsFor(issues[RankOf(i)], results[i])

\* two different failing results, one of them large text
IssuesExactlyForFailuresWitness ==
    /\ Issued
    /\ Len(results) = 2
    /\ Len(issues) = 2
    /\ issues[1].foreground # issues[2].foreground
    /\ issues[1].is_large_text
    /\ ~issues[2].is_large_text

----------------------------------------------------------------------------
\* C14: every issue get_accessibility_issues produces carries the required
\* ratio (3.0 for large text, 4.5 otherwise), a recommended minimum fix and
\* a reference to the WCAG clause (the wcag_criterion of the issue records
\* of this repository).
IssuesCarryClause ==
    Issued =>
        \A i \in 1..Len(issues) :
            /\ issues[i].required_ratio = (IF issues[i].is_large_text THEN 300 ELSE 450)
            /\ "recommendation" \in DOMAIN issues[i]
            /\ "wcag_criterion" \in DOMAIN issues[i]

----------------------------------------------------------------------------
\* C15: text is large if and only if font_size is not null and either
\* (is_bold and font_size >= 14) or (not is_bold and font_size >= 18); with
\* no font_size it is never large. (18, not bold) and (14, bold) are large;
\* (17.9, not bold), (13.9, bold) and (null, bold) are not. The issues carry
\* this classification of the result they are about.
LargeTextRule ==
    /\ (Checked /\ ~IsLargeTextRaises(call.font_size, call.is_bold)) =>
           /\ _is_large_text(call.font_size, call.is_bold)
                  = LargeText(call.font_size, call.is_bold)
           /\ call.font_size = None => ~_is_large_text(call.font_size, call.is_bold)
           /\ (call.font_size = Float(180) /\ ~call.is_bold) =>
                  _is_large_text(call.font_size, call.is_bold)
           /\ (call.font_size = Float(140) /\ call.is_bold) =>
                  _is_large_text(call.font_size, call.is_bold)
           /\ (call.font_size = Float(179) /\ ~call.is_bold) =>
                  ~_is_large_text(call.font_size, call.is_bold)
           /\ (call.font_size = Float(139) /\ call.is_bold) =>
                  ~_is_large_text(call.font_size, call.is_bold)
    /\ Issued =>
           \A i \in 1..Len(issues) :
               \E j \in 1..Len(results) :
                   /\ IssueIsFor(issues[i], results[j])
                   /\ issues[i].is_large_text
                          = LargeText(results[j].font_size, results[j].is_bold)

\* bold 14pt text that fails: its issue is classified as large text
LargeTextRuleWitness ==
    /\ Issued
    /\ call.font_size = Float(140)
    /\ call.is_bold
    /\ results = <<result>>
    /\ Len(issues) = 1
    /\ issues[1].is_large_text
    /\ issues[1].required_ratio = 300

----------------------------------------------------------------------------
\* C16: in every result computed from two parsed colours each flag is the
\* comparison of the stored contrast_ratio with its threshold, whatever
\* font_size and is_bold are: meets_aa_normal = (ratio >= 4.5),
\* meets_aa_large = (ratio >= 3.0), meets_aaa_normal = (ratio >= 7.0),
\* meets_aaa_large = (ratio >= 4.5).
SameFlags(r1, r2) ==
    /\ r1.meets_aa_normal = r2.meets_aa_normal
    /\ r1.meets_aa_large = r2.meets_aa_large
    /\ r1.meets_aaa_normal = r2.meets_aaa_normal
    /\ r1.meets_aaa_large = r2.meets_aaa_large

FlagsCompareRatio ==
    BothParsed =>
        /\ result.meets_aa_normal = (result.contrast_ratio >= 450)
        /\ result.meets_aa_large = (result.contrast_ratio >= 300)
        /\ result.meets_aaa_normal = (result.contrast_ratio >= 700)
        /\ result.meets_aaa_large = (result.contrast_ratio >= 450)
        /\ ~IsLargeTextRaises(call.font_size, call.is_bold) =>
               SameFlags(result,
                         check_contrast(call.foreground, call.background,
                                        call.element_type, call.text_content,
                                        None, FALSE))

\* large bold text with a ratio between 4.5 and 7.0
FlagsCompareRatioWitness ==
    /\ op = "check_contrast"
    /\ BothParsed
    /\ result.font_size = Float(180)
    /\ result.is_bold
    /\ result.contrast_ratio >= 450
    /\ result.contrast_ratio < 700
    /\ result.meets_aaa_large
    /\ ~result.meets_aaa_normal

----------------------------------------------------------------------------
\* C17: for all colours A and B with channels in [0,1] the ratio
\* _calculate_contrast_ratio returns is at least 1.0 and at most 21.0: for
\* the parsed pair and for every candidate the searches measure.
InRange(ratio) == ratio >= 100 /\ ratio <= 2100

UnitChannels(color) ==
    /\ color.r \in 0..ChannelScale
    /\ color.g \in 0..ChannelScale
    /\ color.b \in 0..ChannelScale

RatioWithinBounds ==
    /\ BothParsed /\ UnitChannels(parsed.fg_color) /\ UnitChannels(parsed.bg_color) =>
           /\ InRange(PairRatio)
           /\ InRange(_calculate_contrast_ratio(parsed.bg_color, parsed.fg_color))
    /\ Suggested =>
           /\ \A i \in 1..Len(searches.darken.evaluated) :
                  UnitChannels(parsed.bg_color) =>
                      InRange(searches.darken.evaluated[i].new_ratio)
           /\ \A i \in 1..Len(searches.lighten.evaluated) :
                  UnitChannels(parsed.fg_color) =>
                      InRange(searches.lighten.evaluated[i].new_ratio)

\* a pair strictly inside the range whose searches measured candidates
RatioWithinBoundsWitness ==
    /\ Suggested
    /\ BothParsed
    /\ PairRatio > 100
    /\ PairRatio < 2100
    /\ Len(searches.darken.evaluated) >= 1
    /\ Len(searches.lighten.evaluated) >= 1

----------------------------------------------------------------------------
\* C18: the ratio of pure black against pure white is exactly 21.0, and the
\* ratio of any colour against itself is exactly 1.0.
White == from_rgb_bytes(255, 255, 255)

ExtremeRatios ==
    BothParsed =>
        /\ (parsed.fg_color = Black /\ parsed.bg_color = White) => PairRatio = 2100
        /\ (parsed.fg_color = White /\ parsed.bg_color = Black) => PairRatio = 2100
        /\ parsed.fg_color = parsed.bg_color => PairRatio = 100
        /\ ~IsLargeTextRaises(call.font_size, call.is_bold) =>
               result.contrast_ratio = PairRatio

\* black text on white was checked
ExtremeRatiosWitness ==
    /\ op = "check_contrast"
    /\ call.foreground = Str(<<"#", "0", "0", "0", "0", "0", "0">>)
    /\ call.background = Str(<<"#", "f", "f", "f", "f", "f", "f">>)
    /\ call.font_size = None
    /\ result.contrast_ratio = 2100

----------------------------------------------------------------------------
\* C19: an rgb(r, g, b) input with a channel above 255 does not raise and is
\* clamped: the parsed Color has every channel in [0,1], a channel above 255
\* being 1.0, so that rgb(300, 0, 0) parses to the Color of rgb(255, 0, 0).
IsRgbForm(color_str) ==
    /\ color_str.type = "str"
    /\ startswith(strip(color_str.chars), <<"r", "g", "b">>)
    /\ RgbSearch(strip(color_str.chars)).matched

ClampedChannel(digits) == 10 * Min(255, int(digits))

ClampedRgb(groups) ==
    MkColor(ClampedChannel(groups[1]), ClampedChannel(groups[2]),
            ClampedChannel(groups[3]))

RgbClampedFor(color_str, color) ==
    IsRgbForm(color_str) =>
        color = ClampedRgb(RgbSearch(strip(color_str.chars)).groups)

RgbChannelsClamped ==
    Checked =>
        /\ RgbClampedFor(call.foreground, parsed.fg_color)
        /\ RgbClampedFor(call.background, parsed.bg_color)

----------------------------------------------------------------------------
\* C20: the foreground_color and background_color of every result
\* check_contrast returns are the caller's arguments verbatim, not trimmed,
\* normalised or replaced by the parsed colour, on the normal path and on
\* the error path.
ColorsVerbatim ==
    Checked =>
        /\ result.foreground_color = call.foreground
        /\ result.background_color = call.background

\* a colour given with whitespace around it, on the normal path
ColorsVerbatimWitness ==
    /\ op = "check_contrast"
    /\ BothParsed
    /\ call.foreground.chars # strip(call.foreground.chars)
    /\ result.contrast_ratio >= 100
    /\ result.foreground_color = call.foreground

----------------------------------------------------------------------------
(* batches *)

BatchChecked == op \in {"check_multiple_contrasts", "get_accessibility_issues"}

BatchIssued == op = "get_accessibility_issues"

\* no issue of the list is about the i-th result
NoIssueFor(i) ==
    /\ i \notin Failing
    /\ \A k \in 1..Len(issues) : ~IssueIsFor(issues[k], results[i])

IsPair(r, fg, bg) == r.foreground_color = Str(fg) /\ r.background_color = Str(bg)

----------------------------------------------------------------------------
\* C24 as stated: the contrast ratio of #000000 against #777777 is within
\* 0.1 of 4.47.
BlackOnMidGreyNear447 ==
    BatchChecked =>
        \A i \in 1..Len(results) :
            IsPair(results[i], <<"#", "0", "0", "0", "0", "0", "0">>,
                   <<"#", "7", "7", "7", "7", "7", "7">>) =>
                /\ results[i].contrast_ratio >= 437
                /\ results[i].contrast_ratio <= 457

\* C24 as amended: the contrast ratio of #000000 against #777777 is within
\* 0.1 of 4.69.
BlackOnMidGreyNear469 ==
    BatchChecked =>
        \A i \in 1..Len(results) :
            IsPair(results[i], <<"#", "0", "0", "0", "0", "0", "0">>,
                   <<"#", "7", "7", "7", "7", "7", "7">>) =>
                /\ results[i].contrast_ratio >= 459
                /\ results[i].contrast_ratio <= 479

\* the pair was evaluated
BlackOnMidGreyWitness ==
    /\ op = "check_multiple_contrasts"
    /\ Len(results) = 1
    /\ IsPair(results[1], <<"#", "0", "0", "0", "0", "0", "0">>,
              <<"#", "7", "7", "7", "7", "7", "7">>)
    /\ results[1].contrast_ratio = 469

----------------------------------------------------------------------------
\* C25: check_contrast with foreground "#767676", background "#FFFFFF",
\* font_size 12 and is_bold False returns the ratio 4.54 with
\* meets_aa_normal true, and get_accessibility_issues reports no issue for
\* that result.
IsBoundaryCase(r) ==
    /\ IsPair(r, <<"#", "7", "6", "7", "6", "7", "6">>,
              <<"#", "F", "F", "F", "F", "F", "F">>)
    /\ r.font_size = Float(120)
    /\ ~r.is_bold

BoundaryCasePasses ==
    BatchChecked =>
        \A i \in 1..Len(results) :
            IsBoundaryCase(results[i]) =>
                /\ results[i].contrast_ratio = 454
                /\ results[i].meets_aa_normal
                /\ BatchIssued => NoIssueFor(i)

\* the case was evaluated next to a failing one and only that one is reported
BoundaryCasePassesWitness ==
    /\ BatchIssued
    /\ Len(results) = 2
    /\ IsBoundaryCase(results[1])
    /\ results[2].contrast_ratio = 448
    /\ Len(issues) = 1

----------------------------------------------------------------------------
\* C26: parsing a #RRGGBB string, in either case, and serialising the Color
\* with int(channel*255) as two lower-case hex digits per channel gives the
\* same colour in lower case, for every 8-bit channel value.
LowerChar(ch) ==
    IF \E i \in 11..16 : UpperHexDigits[i] = ch
    THEN HexDigits[CHOOSE i \in 11..16 : UpperHexDigits[i] = ch]
    ELSE ch

LowerCase(chars) == [i \in 1..Len(chars) |-> LowerChar(chars[i])]

HexRoundTrip ==
    /\ op = "_parse_color" =>
           /\ roundtrip.color # None
           /\ \A k \in 0..2 :
                  <<roundtrip.color.r, roundtrip.color.g, roundtrip.color.b>>[k + 1]
                      = 10 * ((16 * HexVal(roundtrip.input.chars[2 + (2 * k)]))
                              + HexVal(roundtrip.input.chars[3 + (2 * k)]))
    /\ op = "serialise" =>
           roundtrip.output = Str(LowerCase(roundtrip.input.chars))

\* #AABBCC came back as #aabbcc
HexRoundTripWitness ==
    /\ op = "serialise"
    /\ roundtrip.input = Str(<<"#", "A", "A", "F", "F", "5", "5">>)
    /\ roundtrip.output = Str(<<"#", "a", "a", "f", "f", "5", "5">>)

----------------------------------------------------------------------------
\* C27: check_multiple_contrasts returns one ContrastResult per record, in
\* the order of the records, each the evaluation of its record with the
\* defaults foreground '#000000', background '#ffffff', element_type 'text',
\* text_content None, font_size None, is_bold False for the keys the
\* record omits; a record with no colour keys yields ratio 21.0 and no
\* issue.
Has(data, key) == key \in DOMAIN data

EvaluationOf(data) ==
    check_contrast(
        IF Has(data, "foreground") THEN data["foreground"]
        ELSE Str(<<"#", "0", "0", "0", "0", "0", "0">>),
        IF Has(data, "background") THEN data["background"]
        ELSE Str(<<"#", "f", "f", "f", "f", "f", "f">>),
        IF Has(data, "element_type") THEN data["element_type"]
        ELSE Str(<<"t", "e", "x", "t">>),
        IF Has(data, "text_content") THEN data["text_content"] ELSE None,
        IF Has(data, "font_size") THEN data["font_size"] ELSE None,
        IF Has(data, "is_bold") THEN data["is_bold"] ELSE FALSE)

OneResultPerRecord ==
    BatchChecked =>
        /\ Len(results) = Len(color_data)
        /\ \A i \in 1..Len(color_data) :
               /\ results[i] = EvaluationOf(color_data[i])
               /\ (~Has(color_data[i], "foreground") /\ ~Has(color_data[i], "background")) =>
                      /\ results[i].contrast_ratio = 2100
                      /\ BatchIssued => NoIssueFor(i)

\* a failing record followed by the record with no key
OneResultPerRecordWitness ==
    /\ BatchIssued
    /\ Len(color_data) = 2
    /\ DOMAIN color_data[1] = {"foreground"}
    /\ DOMAIN color_data[2] = {}
    /\ results[1].contrast_ratio = 448
    /\ results[2].contrast_ratio = 2100
    /\ Len(issues) = 1

----------------------------------------------------------------------------
\* C21: whitespace before and after a colour string does not change how it
\* is parsed: _parse_color gives the same Color for the string, for the
\* string with whitespace added around it and for the string with its
\* whitespace removed, so the ratio and the flags of check_contrast do not
\* change either.
Padded(color_str) ==
    IF color_str.type = "str"
    THEN Str(<<" ", "\t">> \o color_str.chars \o <<"\n", " ">>)
    ELSE color_str

Trimmed(color_str) ==
    IF color_str.type = "str" THEN Str(strip(color_str.chars)) ELSE color_str

SameVerdict(r1, r2) == r1.contrast_ratio = r2.contrast_ratio /\ SameFlags(r1, r2)

WhitespaceIgnored ==
    Checked =>
        /\ _parse_color(Padded(call.foreground)) = parsed.fg_color
        /\ _parse_color(Trimmed(call.foreground)) = parsed.fg_color
        /\ _parse_color(Padded(call.background)) = parsed.bg_color
        /\ _parse_color(Trimmed(call.background)) = parsed.bg_color
        /\ SameVerdict(result,
                       check_contrast(Padded(call.foreground), Padded(call.background),
                                      call.element_type, call.text_content,
                                      call.font_size, call.is_bold))
        /\ SameVerdict(result,
                       check_contrast(Trimmed(call.foreground), Trimmed(call.background),
                                      call.element_type, call.text_content,
                                      call.font_size, call.is_bold))

\* white given with whitespace around it, against black
WhitespaceIgnoredWitness ==
    /\ op = "check_contrast"
    /\ call.foreground = Str(<<" ", "#", "f", "f", "f", "f", "f", "f", "\n">>)
    /\ call.background = Str(<<"#", "0", "0", "0", "0", "0", "0">>)
    /\ parsed.fg_color = White
    /\ result.contrast_ratio = 2100

----------------------------------------------------------------------------
\* C23: ContrastResult records and Colors are not changed after they are
\* built: after suggest_color_fixes and get_accessibility_issues the result
\* is still what check_contrast returned, the list passed to
\* get_accessibility_issues still holds the results it was built from, and
\* the colour and the partner colour given to _adjust_brightness are, when
\* it returns, the Colors that were parsed.
RunLeftColors(run, color, other_color) ==
    run # NoRun => run.color = color /\ run.other_color = other_color

NothingMutated ==
    Checked =>
        /\ result = check_contrast(call.foreground, call.background, call.element_type,
                                   call.text_content, call.font_size, call.is_bold)
        /\ results # <<>> => results \in ResultLists(result)
        /\ RunLeftColors(searches.darken, parsed.fg_color, parsed.bg_color)
        /\ RunLeftColors(searches.lighten, parsed.bg_color, parsed.fg_color)

\* both calls were made on the result and both searches went through
\* their whole ladder
NothingMutatedWitness ==
    /\ Checked
    /\ results # <<>>
    /\ Len(searches.darken.evaluated) = 4
    /\ Len(searches.lighten.evaluated) >= 2
    /\ searches.darken.evaluated[4].adjusted # parsed.fg_color

----------------------------------------------------------------------------
\* C28: when check_contrast cannot obtain a Color for one of its inputs it
\* returns the error result (contrast_ratio 0.0, the four flags false,
\* font_size None); for that result get_accessibility_issues emits exactly
\* one issue, for normal text, with required_ratio 4.5 and severity 'high',
\* and suggest_color_fixes returns an empty list.
IsErrorIssue(issue) ==
    /\ ~issue.is_large_text
    /\ issue.required_ratio = 450
    /\ issue.severity = "high"
    /\ issue.current_ratio = 0

----------------------------------------------------------------------------
\* C29: every issue has meets_aa false and a current_ratio below its
\* required_ratio; its severity is 'high' exactly when current_ratio < 3.0
\* and 'medium' otherwise, so that every issue for large text is 'high' and
\* 'medium' occurs only for normal text with 3.0 <= ratio < 4.5.
IssueSeverityRule ==
    Checked =>
        \A k \in 1..Len(issues) :
            /\ ~issues[k].meets_aa
            /\ issues[k].current_ratio < issues[k].required_ratio
            /\ issues[k].severity = (IF issues[k].current_ratio < 300
                                     THEN "high" ELSE "medium")
            /\ issues[k].is_large_text => issues[k].severity = "high"
            /\ issues[k].severity = "medium" =>
                   /\ ~issues[k].is_large_text
                   /\ issues[k].current_ratio >= 300
                   /\ issues[k].current_ratio < 450

\* an issue for large text next to a 'medium' one
IssueSeverityRuleWitness ==
    /\ Issued
    /\ Len(issues) = 2
    /\ issues[1].is_large_text
    /\ issues[1].severity = "high"
    /\ issues[1].current_ratio > 0
    /\ issues[2].severity = "medium"

----------------------------------------------------------------------------
\* C30: every candidate of the brightness search is a valid colour moved in
\* the intended direction: a darken candidate has 0 <= new <= old in every
\* channel, a lighten candidate old <= new <= 1, and each step of a ladder
\* is no lighter (darken) or no darker (lighten) than the step before it.
Channels(color) == <<color.r, color.g, color.b>>

NoLighter(a, b) == \A k \in 1..3 : Channels(a)[k] <= Channels(b)[k]

ValidColor(color) == \A k \in 1..3 : Channels(color)[k] \in 0..ChannelScale

CandidatesMoveOneWay ==
    Suggested =>
        /\ \A i \in 1..Len(searches.darken.evaluated) :
               /\ ValidColor(searches.darken.evaluated[i].adjusted)
               /\ NoLighter(searches.darken.evaluated[i].adjusted, parsed.fg_color)
               /\ i > 1 => NoLighter(searches.darken.evaluated[i].adjusted,
                                     searches.darken.evaluated[i - 1].adjusted)
        /\ \A i \in 1..Len(searches.lighten.evaluated) :
               /\ ValidColor(searches.lighten.evaluated[i].adjusted)
               /\ NoLighter(parsed.bg_color, searches.lighten.evaluated[i].adjusted)
               /\ i > 1 => NoLighter(searches.lighten.evaluated[i - 1].adjusted,
                                     searches.lighten.evaluated[i].adjusted)

----------------------------------------------------------------------------
\* C22: evaluations do not interfere: in every interleaving of the steps of
\* concurrent check_contrast, get_accessibility_issues and
\* suggest_color_fixes calls on one shared ContrastChecker, and after any
\* earlier calls, a call returns the value it returns when it runs alone on
\* its arguments, and no call writes an attribute of the checker.
Alone(c) ==
    CASE c.method = "check_contrast" -> ResultOfCall(c.args)
      [] c.method = "suggest_color_fixes" -> suggest_color_fixes(c.args.result)
      [] c.method = "get_accessibility_issues" -> get_accessibility_issues(c.args.results)

NoInterference ==
    /\ self = NewChecker
    /\ \A t \in Threads : pc[t] = "done" => ret[t] = Alone(invocation[t])

\* two different calls have returned, each with steps of the other thread
\* between its own
NoInterferenceWitness ==
    /\ pc[1] = "done"
    /\ pc[2] = "done"
    /\ interleaved[1]
    /\ interleaved[2]
    /\ invocation[1].method = "check_contrast"
    /\ invocation[2].method = "suggest_color_fixes"
    /\ Len(ret[2]) >= 1

====
